---- MODULE Spec2Model ----
(***************************************************************************)
(* A model of the MWA archive_stats reporting job (src/src/stats.py, with  *)
(* the older variant src/stats.py where the two differ).                   *)
(*                                                                         *)
(* Each component is modelled with its own specification over the one set  *)
(* of variables:                                                           *)
(*   SpecVolume    do_plot_archive_volume_per_month: the two queries, the  *)
(*                 loop over the ingest rows and the plotted series;       *)
(*   SpecCollector get_acacia_usage / get_banksia_usage: classification of *)
(*                 the bucket list, the worker pools running run_mc_du and *)
(*                 the summation of their results;                         *)
(*   SpecDb        get_location_summary_bytes and get_deleted_data_by_month*)
(*                 on the connection pool;                                 *)
(*   SpecDump      dump_stats and dump_monthly_stats: the loop over the    *)
(*                 rows and the CSV rows written;                          *)
(*   SpecCalc      get_duty_cycle and get_available_hours, applied to      *)
(*                 arguments drawn from bounded sets;                      *)
(*   SpecPie       do_plot_archive_volume_per_project and                  *)
(*                 do_plot_telescope_time_per_project: the slices;         *)
(*   SpecProfile   randomise_banksia_vss_profile and                       *)
(*                 randomise_banksia_profile;                              *)
(*   SpecWindow    the condition under which do_plot_archive_volume_per_   *)
(*                 month dumps a row to the console;                       *)
(*   SpecRun       run_stats: its phases, from the collectors to the last  *)
(*                 chart;                                                  *)
(*   SpecSci       src/volume_per_sci_plots.py: the sort, cum_frac and     *)
(*                 cat_totals;                                             *)
(*   SpecLog       src/staging_log_scraping.py: the loop over the lines of *)
(*                 the log;                                                *)
(*   SpecUnits     bytes_to_terabytes and bytes_to_petabytes in binary64.  *)
(*                                                                         *)
(* Byte counts are kept in units of 10^11 bytes (100 GB) so that the       *)
(* terabyte figures of the spec stay inside TLC's integers: 1 TB is 10     *)
(* units, 1 PB is 10000 units.  A float is a rational [num, den], except   *)
(* in SpecUnits and in the quotients of C24, where it is a binary64.       *)
(***************************************************************************)
EXTENDS Integers, Sequences, FiniteSets, TLC

VARIABLES
    \* ---- do_plot_archive_volume_per_month ----
    vpc,                     \* "start" | "loop" | "plotted" | "crashed"
    days,                    \* (date_to - date_from).days
    cumulative,              \* argument
    ingest_only,             \* argument
    stride_months,           \* 0 until it is assigned
    results,                 \* rows of the ingest query
    deleted_results,         \* Rows(rows of the deletion query), or NoRows for None
    row_idx,                 \* number of rows of results the loop has taken
    this_deleted_bytes,
    volume_bytes,
    cumulative_volume_bytes,
    x_axis,
    y_axis,
    volume_petabytes,        \* the figure in the plot's title, NoFloat before the plot
    \* ---- get_acacia_usage / get_banksia_usage ----
    cpc,                     \* "start" | "acacia_pool" | "banksia_pool" | "dmf_pool"
                             \*   | "returned" | "aborted"
    collector,               \* "acacia" | "banksia": the function that runs
    bucket_list,             \* the names the S3 listing gave
    dmf_buckets,
    banksia_buckets,
    skipped,                 \* the names logged as "Skipping bucket"
    pool_values,             \* the buckets handed to the running pool, in order
    pool_results,            \* per task of the running pool: pending, raised or a size
    mc_reply,                \* per bucket of bucket_list: what mc answered, if asked
    dmf_total_size,
    banksia_total_size,
    total_size,
    ret,                     \* the returned tuple, <<>> before the return
    out_of_order,            \* history: a task finished while an earlier one ran
    \* ---- get_location_summary_bytes / get_deleted_data_by_month ----
    qpc,                     \* "ready" | "getconn" | "execute" | "finally" | "after"
                             \*   | "returned" | "exited" | "unhandled"
    variant,                 \* "current": src/src/stats.py, "legacy": src/stats.py
    query_fn,                \* "location" | "deleted": the function that runs
    data_files,              \* the rows of table data_files
    conn,                    \* conn is not None
    checked_out,             \* connections the pool has handed out
    db_results,              \* Rows(fetchall()), or NoRows for None
    error_logged,            \* the except clause logged the error
    tier_totals,             \* the tuple get_location_summary_bytes returned
    exit_status,             \* the status the process ended with after exit()
    queries_done,            \* calls of the two functions so far
    \* ---- dump_stats / dump_monthly_stats ----
    dump_pc,                 \* "loop" | "done" | "crashed"
    dump_fn,                 \* "dump_stats" | "dump_monthly_stats"
    dump_rows,               \* rows of the query
    dump_i,                  \* i: rows the loop has taken
    csv_rows,                \* rows written after the header
    total_bytes,
    deleted_bytes,
    total_secs,
    \* ---- get_duty_cycle / get_available_hours ----
    calc_pc,                 \* "call" | "returned" | "raised"
    calc_fn,                 \* "get_duty_cycle" | "get_available_hours"
    calc_args,               \* [hours, available_hours], or [year, month]
    calc_result,             \* the float returned
    \* ---- do_plot_archive_volume_per_project / ..._telescope_time_per_project ----
    pie_pc,                  \* "loop" | "plotted"
    pie_fn,                  \* "volume" | "time"
    pie_rows,                \* per project: bytes, or seconds observed
    slice_no,
    labels,
    x_values,
    other,                   \* other_bytes, or other_time
    \* ---- the mc profiles of get_banksia_usage ----
    prof_pc,                 \* "build" | "built" | "raised"
    profile_fn,              \* or "randomise_banksia_profile"
    endpoint_urls,           \* banksia_endpoint_urls of the configuration
    banksia_profile,         \* the profile argument of src/stats.py
    n_values,                \* len(dmf_buckets) + len(banksia_buckets)
    mc_profiles,             \* the profiles of dmf_values and banksia_values
    \* ---- the debug dump of do_plot_archive_volume_per_month ----
    win_pc,                  \* "loop" | "done" | "raised"
    win_ingest_only,         \* ingest_only
    win_days,                \* (date_to - date_from).days
    dump_window,             \* the dump_year/month_from/to arguments
    win_rows,                \* (reporting_year, reporting_month) of the rows
    win_i,                   \* rows the loop has taken
    dumped,                  \* rows the debug dump was logged for
    \* ---- run_stats ----
    run_pc,                  \* the phase run_stats is about to run, "done" or "failed"
    use_s3,                  \* use_acacia_mwaingest, use_acacia_mwa, use_banksia = 1
    quota_bytes,             \* acacia_mwaingest_quota_bytes
    s3_bytes,                \* acacia_mwaingest, acacia_mwa, dmf and banksia bytes
    db_bytes,                \* the four totals of get_location_summary_bytes
    run_log,                 \* the phases entered, in order
    written,                 \* the files created, in order
    failed_at,               \* the phase that raised or exited
    \* ---- volume_per_sci_plots.py ----
    sci_pc,                  \* "read" | "sorted" | "cum_frac" | "done" | "raised"
    sci_data,                \* data: the rows of the CSV file after the header
    descs,                   \* data[order, 1]
    vols,                    \* data[order, 2].astype(float)
    cum_frac,
    cat_totals,              \* one total per entry of cat_lookup
    \* ---- parse_mwadmget_log of src/staging_log_scraping.py ----
    log_pc,                  \* "loop" | "returned" | "aborted"
    log_lines,               \* the lines of the log file
    lines_read,              \* lines the for loop has taken
    line_no,
    data_list,               \* (staging_date_time, staging_seconds)
    printed,                 \* the line numbers of the cannot parse messages
    mwa_staging,             \* the rows inserted into the table
    log_ret,                 \* the value returned, once it has returned
    \* ---- bytes_to_terabytes / bytes_to_petabytes in binary64 ----
    unit_pc,                 \* "call" | "returned"
    unit_arg,             \* the argument: None, or an int
    terabytes,               \* bytes_to_terabytes(unit_arg), once returned
    petabytes                \* bytes_to_petabytes(unit_arg), once returned

volumeVars == <<vpc, days, cumulative, ingest_only, stride_months, results,
                deleted_results, row_idx, this_deleted_bytes, volume_bytes,
                cumulative_volume_bytes, x_axis, y_axis, volume_petabytes>>

collectorVars == <<cpc, collector, bucket_list, dmf_buckets, banksia_buckets,
                   skipped, pool_values, pool_results, mc_reply, dmf_total_size,
                   banksia_total_size, total_size, ret, out_of_order>>

dbVars == <<qpc, variant, query_fn, data_files, conn, checked_out, db_results,
            error_logged, tier_totals, exit_status, queries_done>>

dumpVars == <<dump_pc, dump_fn, dump_rows, dump_i, csv_rows, total_bytes,
              deleted_bytes, total_secs>>

calcVars == <<calc_pc, calc_fn, calc_args, calc_result>>

pieVars == <<pie_pc, pie_fn, pie_rows, slice_no, labels, x_values, other>>

profileVars == <<prof_pc, profile_fn, endpoint_urls, banksia_profile, n_values,
                 mc_profiles>>

windowVars == <<win_pc, win_ingest_only, win_days, dump_window, win_rows,
                win_i, dumped>>

runVars == <<run_pc, use_s3, quota_bytes, s3_bytes, db_bytes, run_log,
             written, failed_at>>

sciVars == <<sci_pc, sci_data, descs, vols, cum_frac, cat_totals>>

logVars == <<log_pc, log_lines, lines_read, line_no, data_list, printed,
             mwa_staging, log_ret>>

unitsVars == <<unit_pc, unit_arg, terabytes, petabytes>>

vars == <<volumeVars, collectorVars, dbVars, dumpVars, calcVars, pieVars,
          profileVars, windowVars, runVars, sciVars, logVars, unitsVars>>

\* what a component leaves alone: the variables of all the others
outsideVolume == <<collectorVars, dbVars, dumpVars, calcVars, pieVars,
                   profileVars, windowVars, runVars, sciVars, logVars,
                   unitsVars>>
outsideCollector == <<volumeVars, dbVars, dumpVars, calcVars, pieVars,
                      profileVars, windowVars, runVars, sciVars, logVars,
                      unitsVars>>
outsideDb == <<volumeVars, collectorVars, dumpVars, calcVars, pieVars,
               profileVars, windowVars, runVars, sciVars, logVars, unitsVars>>
outsideDump == <<volumeVars, collectorVars, dbVars, calcVars, pieVars,
                 profileVars, windowVars, runVars, sciVars, logVars,
                 unitsVars>>
outsideCalc == <<volumeVars, collectorVars, dbVars, dumpVars, pieVars,
                 profileVars, windowVars, runVars, sciVars, logVars,
                 unitsVars>>
outsidePie == <<volumeVars, collectorVars, dbVars, dumpVars, calcVars,
                profileVars, windowVars, runVars, sciVars, logVars,
                unitsVars>>
outsideProfile == <<volumeVars, collectorVars, dbVars, dumpVars, calcVars,
                    pieVars, windowVars, runVars, sciVars, logVars,
                    unitsVars>>
outsideWindow == <<volumeVars, collectorVars, dbVars, dumpVars, calcVars,
                   pieVars, profileVars, runVars, sciVars, logVars,
                   unitsVars>>
outsideRun == <<volumeVars, collectorVars, dbVars, dumpVars, calcVars,
                pieVars, profileVars, windowVars, sciVars, logVars,
                unitsVars>>
outsideSci == <<volumeVars, collectorVars, dbVars, dumpVars, calcVars,
                pieVars, profileVars, windowVars, runVars, logVars,
                unitsVars>>
outsideLog == <<volumeVars, collectorVars, dbVars, dumpVars, calcVars,
                pieVars, profileVars, windowVars, runVars, sciVars,
                unitsVars>>
outsideUnits == <<volumeVars, collectorVars, dbVars, dumpVars, calcVars,
                  pieVars, profileVars, windowVars, runVars, sciVars,
                  logVars>>

\* A Python value that is an int or None, and one that is a list of rows or None
PyInt(v) == [is_none |-> FALSE, int |-> v]
PyNone == [is_none |-> TRUE, int |-> 0]
Rows(r) == [is_none |-> FALSE, rows |-> r]
NoRows == [is_none |-> TRUE, rows |-> <<>>]
\* a float that was not computed yet
NoFloat == [num |-> 0, den |-> 0]

(***************************************************************************)
(* The variables of a component that does not run.                         *)
(***************************************************************************)
VolumeIdle ==
    /\ vpc = "idle"
    /\ days = 0
    /\ cumulative = FALSE
    /\ ingest_only = FALSE
    /\ stride_months = 0
    /\ results = <<>>
    /\ deleted_results = NoRows
    /\ row_idx = 0
    /\ this_deleted_bytes = 0
    /\ volume_bytes = 0
    /\ cumulative_volume_bytes = 0
    /\ x_axis = <<>>
    /\ y_axis = <<>>
    /\ volume_petabytes = NoFloat

CollectorIdle ==
    /\ cpc = "idle"
    /\ collector = "banksia"
    /\ bucket_list = <<>>
    /\ dmf_buckets = <<>>
    /\ banksia_buckets = <<>>
    /\ skipped = <<>>
    /\ pool_values = <<>>
    /\ pool_results = <<>>
    /\ mc_reply = <<>>
    /\ dmf_total_size = 0
    /\ banksia_total_size = 0
    /\ total_size = 0
    /\ ret = <<>>
    /\ out_of_order = FALSE

DbIdle ==
    /\ qpc = "idle"
    /\ variant = "current"
    /\ query_fn = "location"
    /\ data_files = {}
    /\ conn = FALSE
    /\ checked_out = 0
    /\ db_results = NoRows
    /\ error_logged = FALSE
    /\ tier_totals = <<>>
    /\ exit_status = 0
    /\ queries_done = 0

DumpIdle ==
    /\ dump_pc = "idle"
    /\ dump_fn = "dump_stats"
    /\ dump_rows = <<>>
    /\ dump_i = 0
    /\ csv_rows = <<>>
    /\ total_bytes = 0
    /\ deleted_bytes = 0
    /\ total_secs = 0

CalcIdle ==
    /\ calc_pc = "idle"
    /\ calc_fn = "get_duty_cycle"
    /\ calc_args = <<>>
    /\ calc_result = NoFloat

PieIdle ==
    /\ pie_pc = "idle"
    /\ pie_fn = "volume"
    /\ pie_rows = <<>>
    /\ slice_no = 0
    /\ labels = <<>>
    /\ x_values = <<>>
    /\ other = 0

ProfileIdle ==
    /\ prof_pc = "idle"
    /\ profile_fn = "randomise_banksia_vss_profile"
    /\ endpoint_urls = <<>>
    /\ banksia_profile = <<>>
    /\ n_values = 0
    /\ mc_profiles = <<>>

WindowIdle ==
    /\ win_pc = "idle"
    /\ win_ingest_only = FALSE
    /\ win_days = 0
    /\ dump_window = [is_none |-> TRUE]
    /\ win_rows = <<>>
    /\ win_i = 0
    /\ dumped = <<>>

RunIdle ==
    /\ run_pc = "idle"
    /\ use_s3 = <<>>
    /\ quota_bytes = 0
    /\ s3_bytes = <<>>
    /\ db_bytes = <<>>
    /\ run_log = <<>>
    /\ written = <<>>
    /\ failed_at = ""

SciIdle ==
    /\ sci_pc = "idle"
    /\ sci_data = <<>>
    /\ descs = <<>>
    /\ vols = <<>>
    /\ cum_frac = <<>>
    /\ cat_totals = <<>>

LogIdle ==
    /\ log_pc = "idle"
    /\ log_lines = <<>>
    /\ lines_read = 0
    /\ line_no = 0
    /\ data_list = <<>>
    /\ printed = <<>>
    /\ mwa_staging = <<>>
    /\ log_ret = <<>>

UnitsIdle ==
    /\ unit_pc = "idle"
    /\ unit_arg = [is_none |-> TRUE, bits |-> <<>>]
    /\ terabytes = <<>>
    /\ petabytes = <<>>

(***************************************************************************)
(* Bounds of the model.                                                    *)
(***************************************************************************)
\* number of calendar months, counted from FirstMonth, the databases cover
MaxMonths == 3
\* most buckets a listing returns
MaxBuckets == 3

\* the calendar window starts in November so that it crosses a year boundary
FirstMonth == [year |-> 2021, month |-> 11]

MonthAt(k) ==
    LET n == FirstMonth.month + k - 2
    IN  [year |-> FirstMonth.year + (n \div 12), month |-> (n % 12) + 1]

(***************************************************************************)
(* Helpers over sets and sequences.                                        *)
(***************************************************************************)
RECURSIVE SumSeq(_)
SumSeq(s) == IF s = <<>> THEN 0 ELSE s[1] + SumSeq(Tail(s))

(***************************************************************************)
(* bytes_to_terabytes, bytes_to_petabytes: float(x) / 10^12 and / 10^15,   *)
(* 0.0 for None.  In units of 10^11 bytes the divisors are 10 and 10000.   *)
(***************************************************************************)
UnitsPerTB == 10
UnitsPerPB == 10000

bytes_to_terabytes(bytes_value) ==
    IF bytes_value.is_none THEN [num |-> 0, den |-> 1]
    ELSE [num |-> bytes_value.int, den |-> UnitsPerTB]

bytes_to_petabytes(bytes_value) ==
    IF bytes_value.is_none THEN [num |-> 0, den |-> 1]
    ELSE [num |-> bytes_value.int, den |-> UnitsPerPB]

\* equality of two floats held as rationals
RatEq(a, b) == a.num * b.den = b.num * a.den

(***************************************************************************)
(* The system of record.  An observation carries the bytes still archived  *)
(* and the bytes of its files that were deleted; a data file that was      *)
(* deleted carries the month of its deletion and its size.                 *)
(***************************************************************************)
Obs(ym, p, a, d) ==
    [year |-> ym.year, month |-> ym.month, project |-> p,
     total_archived_bytes |-> a, files_deleted_bytes |-> d]

DelFile(ym, f, s) ==
    [year |-> ym.year, month |-> ym.month, file |-> f, size |-> s]

\* what a month may hold in mwa.observation
ObsOptions(k) ==
    { {},
      {Obs(MonthAt(k), "P1", 10, 0), Obs(MonthAt(k), "P2", 5, 0)},
      {Obs(MonthAt(k), "P1", 0, 6)},
      {Obs(MonthAt(k), "P1", 0, 0)} }

\* what a month may hold in data_files with a deleted_timestamp in it
DelOptions(k) ==
    { {},
      {DelFile(MonthAt(k), "f1", 6)},
      {DelFile(MonthAt(k), "f1", 2), DelFile(MonthAt(k), "f2", 4)} }

\* Two January 2022 observations of 1 TB and 0.5 TB, and a February 2022
\* observation with nothing archived and 0.6 TB of its files deleted, in February
Jan2022 == [year |-> 2022, month |-> 1]
Feb2022 == [year |-> 2022, month |-> 2]
ScenarioObs ==
    {Obs(Jan2022, "P1", 10, 0), Obs(Jan2022, "P2", 5, 0), Obs(Feb2022, "P1", 0, 6)}
ScenarioDel == {DelFile(Feb2022, "f1", 6)}

ObsDBs ==
    {ScenarioObs} \cup
    { UNION {pick[k] : k \in 1..MaxMonths} :
        pick \in { f \in [1..MaxMonths -> UNION {ObsOptions(k) : k \in 1..MaxMonths}] :
                     \A k \in 1..MaxMonths : f[k] \in ObsOptions(k) } }

DelDBs ==
    {ScenarioDel} \cup
    { UNION {pick[k] : k \in 1..MaxMonths} :
        pick \in { f \in [1..MaxMonths -> UNION {DelOptions(k) : k \in 1..MaxMonths}] :
                     \A k \in 1..MaxMonths : f[k] \in DelOptions(k) } }

InMonth(db, ym) == {r \in db : r.year = ym.year /\ r.month = ym.month}

\* variant of SumGross that leaves files_deleted_bytes out of the gross figure
RECURSIVE SumArchivedOnly(_)
SumArchivedOnly(S) ==
    IF S = {} THEN 0
    ELSE LET o == CHOOSE x \in S : TRUE
         IN  o.total_archived_bytes + SumArchivedOnly(S \ {o})

RECURSIVE SumGross(_)
\* SUM(total_archived_bytes + files_deleted_bytes) over a group of observations
SumGross(S) ==
    IF S = {} THEN 0
    ELSE LET o == CHOOSE x \in S : TRUE
         IN  (o.total_archived_bytes + o.files_deleted_bytes) + SumGross(S \ {o})

RECURSIVE SumSize(_)
\* SUM(size) over a group of data files
SumSize(S) ==
    IF S = {} THEN 0
    ELSE LET f == CHOOSE x \in S : TRUE IN f.size + SumSize(S \ {f})

\* GROUP BY 1,2: the (year, month) keys of a table
Keys(db) == {[year |-> r.year, month |-> r.month] : r \in db}

\* ORDER BY 1,2
Earlier(a, b) == a.year < b.year \/ (a.year = b.year /\ a.month < b.month)

First(keys) == CHOOSE k \in keys : \A o \in keys : o = k \/ Earlier(k, o)

RECURSIVE IngestRows(_, _)
IngestRows(db, keys) ==
    IF keys = {} THEN <<>>
    ELSE LET k == First(keys)
         IN  << [reporting_year |-> k.year, reporting_month |-> k.month,
                 total_data_bytes |-> SumGross(InMonth(db, k))] >>
             \o IngestRows(db, keys \ {k})

\* SELECT year, month, SUM(total_archived_bytes + files_deleted_bytes)
\*   FROM mwa.observation ... GROUP BY 1,2 ORDER BY 1,2
IngestQuery(db) == IngestRows(db, Keys(db))

RECURSIVE DeletedRows(_, _)
DeletedRows(db, keys) ==
    IF keys = {} THEN <<>>
    ELSE LET k == First(keys)
         IN  << <<k.year, k.month, SumSize(InMonth(db, k))>> >>
             \o DeletedRows(db, keys \ {k})

\* SELECT year, month, SUM(size) FROM data_files
\*   WHERE deleted_timestamp BETWEEN .. GROUP BY 1,2 ORDER BY 1,2
DeletedQuery(db) == DeletedRows(db, Keys(db))

(***************************************************************************)
(* do_plot_archive_volume_per_month                                        *)
(***************************************************************************)
\* 6 * 31, the length in days above which the stride is three months
SixMonthsDays == 186

\* variant of StrideFor with >= in place of >
StrideForAtLeast(d) == IF d >= SixMonthsDays THEN 3 ELSE 1

StrideFor(d) == IF d > SixMonthsDays THEN 3 ELSE 1

DayChoices == {SixMonthsDays - 1, SixMonthsDays, SixMonthsDays + 1}

\* the inner loop over deleted_results: the deleted bytes of every row of
\* drows with the year and month of row, in the order the loop meets them
RECURSIVE MatchingDeleted(_, _)
MatchingDeleted(row, drows) ==
    IF drows = <<>> THEN <<>>
    ELSE (IF row.reporting_year = drows[1][1] /\ row.reporting_month = drows[1][2]
          THEN <<drows[1][3]>> ELSE <<>>)
         \o MatchingDeleted(row, Tail(drows))

DeletedFor(row, drows, ingest) ==
    IF ingest THEN <<>> ELSE MatchingDeleted(row, drows)

\* this_bytes at the end of an iteration
RowNet(row, drows, ingest) ==
    row.total_data_bytes - SumSeq(DeletedFor(row, drows, ingest))

\* this_deleted_bytes at the end of an iteration: the last match, or 0
RowDeleted(row, drows, ingest) ==
    LET m == DeletedFor(row, drows, ingest)
    IN  IF m = <<>> THEN 0 ELSE m[Len(m)]

\* variants of CumAfter: the deletions never subtracted, or subtracted twice
CumAfterGross(cum, row, drows, ingest) == cum + row.total_data_bytes

CumAfterTwice(cum, row, drows, ingest) ==
    cum + row.total_data_bytes - 2 * SumSeq(DeletedFor(row, drows, ingest))

\* cumulative_volume_bytes at the end of an iteration
CumAfter(cum, row, drows, ingest) ==
    cum + row.total_data_bytes - SumSeq(DeletedFor(row, drows, ingest))

\* variant of Emitted that counts months from 0
EmittedShifted(month, stride) == (month - 1) % stride = 0

\* the striding test
Emitted(month, stride) == month % stride = 0

\* the value appended to y_axis
PlottedValue(cum, net, cumul) ==
    IF cumul THEN bytes_to_terabytes(PyInt(cum)) ELSE bytes_to_terabytes(PyInt(net))

VolumeInit ==
    /\ vpc = "start"
    /\ days \in DayChoices
    /\ cumulative \in BOOLEAN
    /\ ingest_only \in BOOLEAN
    /\ stride_months = 0
    /\ results = <<>>
    /\ deleted_results = NoRows
    /\ row_idx = 0
    /\ this_deleted_bytes = 0
    /\ volume_bytes = 0
    /\ cumulative_volume_bytes = 0
    /\ x_axis = <<>>
    /\ y_axis = <<>>
    /\ volume_petabytes = NoFloat
    \* the collector does not run
    /\ cpc = "idle"
    /\ collector = "banksia"
    /\ bucket_list = <<>>
    /\ dmf_buckets = <<>>
    /\ banksia_buckets = <<>>
    /\ skipped = <<>>
    /\ pool_values = <<>>
    /\ pool_results = <<>>
    /\ mc_reply = <<>>
    /\ dmf_total_size = 0
    /\ banksia_total_size = 0
    /\ total_size = 0
    /\ ret = <<>>
    /\ out_of_order = FALSE
    /\ DbIdle /\ DumpIdle /\ CalcIdle /\ PieIdle
    /\ ProfileIdle
    /\ WindowIdle
    /\ RunIdle
    /\ SciIdle
    /\ LogIdle
    /\ UnitsIdle

\* lines 523-549: the stride, the ingest query, and the deletion query unless
\* ingest_only.  get_deleted_data_by_month returns None when its query raises.
RunQueries ==
    /\ UNCHANGED outsideVolume
    /\ vpc = "start"
    /\ stride_months' = StrideFor(days)
    /\ \E odb \in ObsDBs, ddb \in DelDBs, db_ok \in BOOLEAN :
          /\ results' = IngestQuery(odb)
          /\ deleted_results' =
                IF ingest_only \/ ~db_ok THEN NoRows ELSE Rows(DeletedQuery(ddb))
    /\ vpc' = "loop"
    /\ UNCHANGED <<days, cumulative, ingest_only, row_idx, this_deleted_bytes,
                   volume_bytes, cumulative_volume_bytes, x_axis, y_axis,
                   volume_petabytes>>

\* do_query raises (the TAP service fails): nothing catches it
QueryRaises ==
    /\ UNCHANGED outsideVolume
    /\ vpc = "start"
    /\ stride_months' = StrideFor(days)
    /\ vpc' = "crashed"
    /\ UNCHANGED <<days, cumulative, ingest_only, results, deleted_results,
                   row_idx, this_deleted_bytes, volume_bytes,
                   cumulative_volume_bytes, x_axis, y_axis, volume_petabytes>>

\* lines 551-577: one iteration of the loop over results
ProcessRow ==
    /\ UNCHANGED outsideVolume
    /\ vpc = "loop"
    /\ row_idx < Len(results)
    /\ ~ingest_only => ~deleted_results.is_none
    /\ LET row == results[row_idx + 1]
           net == RowNet(row, deleted_results.rows, ingest_only)
           cum == CumAfter(cumulative_volume_bytes, row, deleted_results.rows, ingest_only)
       IN  /\ this_deleted_bytes' = RowDeleted(row, deleted_results.rows, ingest_only)
           /\ volume_bytes' = net
           /\ cumulative_volume_bytes' = cum
           /\ IF Emitted(row.reporting_month, stride_months)
              THEN /\ x_axis' = Append(x_axis, <<row.reporting_year, row.reporting_month>>)
                   /\ y_axis' = Append(y_axis, PlottedValue(cum, net, cumulative))
              ELSE UNCHANGED <<x_axis, y_axis>>
    /\ row_idx' = row_idx + 1
    /\ UNCHANGED <<vpc, days, cumulative, ingest_only, stride_months, results,
                   deleted_results, volume_petabytes>>

\* lines 551-561 when the deletion query had failed: iterating None raises
\* TypeError after the row's bytes were added to the cumulative volume
ProcessRowRaises ==
    /\ UNCHANGED outsideVolume
    /\ vpc = "loop"
    /\ row_idx < Len(results)
    /\ ~ingest_only /\ deleted_results.is_none
    /\ this_deleted_bytes' = 0
    /\ cumulative_volume_bytes' =
          cumulative_volume_bytes + results[row_idx + 1].total_data_bytes
    /\ vpc' = "crashed"
    /\ UNCHANGED <<days, cumulative, ingest_only, stride_months, results,
                   deleted_results, row_idx, volume_bytes, x_axis, y_axis,
                   volume_petabytes>>

\* lines 600-609: the title's total and the plot
Plot ==
    /\ UNCHANGED outsideVolume
    /\ vpc = "loop"
    /\ row_idx = Len(results)
    /\ volume_petabytes' = bytes_to_petabytes(PyInt(cumulative_volume_bytes))
    /\ vpc' = "plotted"
    /\ UNCHANGED <<days, cumulative, ingest_only, stride_months, results,
                   deleted_results, row_idx, this_deleted_bytes, volume_bytes,
                   cumulative_volume_bytes, x_axis, y_axis>>


(***************************************************************************)
(* Bucket names, as sequences of characters.                               *)
(***************************************************************************)
mwa01fs == <<"m", "w", "a", "0", "1", "f", "s">>
mwa02fs == <<"m", "w", "a", "0", "2", "f", "s">>
mwa03fs == <<"m", "w", "a", "0", "3", "f", "s">>
mwa04fs == <<"m", "w", "a", "0", "4", "f", "s">>
volt01fs == <<"v", "o", "l", "t", "0", "1", "f", "s">>
mwaingest == <<"m", "w", "a", "i", "n", "g", "e", "s", "t">>

\* the names a listing is drawn from, in the order a listing gives them
BucketUniverse ==
    << <<"m", "w", "a", "0", "1", "f", "s">>,
       <<"m", "w", "a", "i", "n", "g", "e", "s", "t", "-", "2">>,
       <<"r", "a", "n", "d", "o", "m", "-", "b", "u", "c", "k", "e", "t">>,
       <<"m", "w", "a", "i", "n", "g", "e", "s", "t", "-", "m", "w", "a", "0", "3", "f", "s">>,
       <<"x", "v", "o", "l", "t", "0", "1", "f", "s">>,
       <<"m", "w", "a", "0", "5", "f", "s">>,
       <<"m", "w", "a", "0", "2", "f", "s", "-", "a">>,
       <<"m", "w", "a", "0", "4", "f", "s">> >>

RECURSIVE Pick(_, _)
\* the names of BucketUniverse at the indexes of S, from index k on
Pick(S, k) ==
    IF k > Len(BucketUniverse) THEN <<>>
    ELSE (IF k \in S THEN <<BucketUniverse[k]>> ELSE <<>>) \o Pick(S, k + 1)

BucketLists ==
    { Pick(S, 1) : S \in { T \in SUBSET (1..Len(BucketUniverse)) :
                             Cardinality(T) <= MaxBuckets } }

\* the position of a name in a list without repetitions
IndexOf(name, list) == CHOOSE i \in 1..Len(list) : list[i] = name

(***************************************************************************)
(* run_mc_du: the mc subprocess, json.loads and int(mc_output["size"]).    *)
(* An answer of mc is its exit code, whether its output is JSON, whether   *)
(* the JSON holds an integer "size", and the "status" and "size" it holds. *)
(***************************************************************************)
McAnswer(rc, json_ok, has_size, status, size) ==
    [rc |-> rc, json_ok |-> json_ok, has_size |-> has_size, status |-> status,
     size |-> size]

McAnswers ==
    { McAnswer(0, TRUE, TRUE, "success", 1),
      McAnswer(0, TRUE, TRUE, "success", 2),
      McAnswer(0, TRUE, TRUE, "error", 1),
      McAnswer(0, TRUE, FALSE, "error", 0),
      McAnswer(0, FALSE, FALSE, "", 0),
      McAnswer(1, FALSE, FALSE, "", 0) }

Pending == [state |-> "pending", size |-> 0]
Raised == [state |-> "raised", size |-> 0]
Returned(size) == [state |-> "returned", size |-> size]

\* check=True raises on a non-zero exit, json.loads on output that is not
\* JSON, mc_output["size"] / int() on a missing or non-integer size
run_mc_du(answer) ==
    IF answer.rc # 0 THEN Raised
    ELSE IF ~answer.json_ok THEN Raised
    ELSE IF ~answer.has_size THEN Raised
    ELSE Returned(answer.size)

(***************************************************************************)
(* The classification loop of get_banksia_usage.                           *)
(***************************************************************************)
IsPrefix(pat, name) == Len(pat) <= Len(name) /\ SubSeq(name, 1, Len(pat)) = pat

RECURSIVE In(_, _)
\* Python's  pat in name  for strings
In(pat, name) ==
    IF Len(name) < Len(pat) THEN FALSE
    ELSE IsPrefix(pat, name) \/ In(pat, Tail(name))

\* variant of Classify with the mwaingest rule first
ClassifyIngestFirst(bucket) ==
    IF In(mwaingest, bucket) THEN "Banksia"
    ELSE IF \/ In(mwa01fs, bucket) \/ In(mwa02fs, bucket) \/ In(mwa03fs, bucket)
            \/ In(mwa04fs, bucket) \/ In(volt01fs, bucket) THEN "DMF"
    ELSE "Skipped"

\* the if / elif / else of the loop body
Classify(bucket) ==
    IF \/ In(mwa01fs, bucket) \/ In(mwa02fs, bucket) \/ In(mwa03fs, bucket)
       \/ In(mwa04fs, bucket) \/ In(volt01fs, bucket) THEN "DMF"
    ELSE IF In(mwaingest, bucket) THEN "Banksia"
    ELSE "Skipped"

RECURSIVE Classified(_, _)
\* the buckets of list the loop appends to the list of the tier, in order
Classified(list, tier) ==
    IF list = <<>> THEN <<>>
    ELSE (IF Classify(list[1]) = tier THEN <<list[1]>> ELSE <<>>)
         \o Classified(Tail(list), tier)

(***************************************************************************)
(* The pools.                                                              *)
(***************************************************************************)
AllPending(values) == [i \in 1..Len(values) |-> Pending]

\* variant of PoolComplete that returns as soon as one task has finished
PoolCompleteAny(res) == \E i \in 1..Len(res) : res[i].state # "pending"

\* pool.starmap returns or raises only once every task has finished
PoolComplete(res) == \A i \in 1..Len(res) : res[i].state # "pending"

\* variant of PoolRaised in which starmap swallows the exception of a task
PoolRaisedNever(res) == FALSE

\* starmap re-raises in the parent the exception of a task
PoolRaised(res) == \E i \in 1..Len(res) : res[i].state = "raised"

\* variant of SumResults that stops one result short
RECURSIVE SumResultsButLast(_)
SumResultsButLast(res) ==
    IF Len(res) <= 1 THEN 0 ELSE res[1].size + SumResultsButLast(Tail(res))

RECURSIVE SumResults(_)
\* for result in results: total += result
SumResults(res) ==
    IF res = <<>> THEN 0 ELSE res[1].size + SumResults(Tail(res))

NoReply == [asked |-> FALSE, answer |-> McAnswer(0, FALSE, FALSE, "", 0)]
Reply(answer) == [asked |-> TRUE, answer |-> answer]

CollectorInit ==
    /\ cpc = "start"
    /\ collector \in {"acacia", "banksia"}
    /\ bucket_list \in BucketLists
    /\ dmf_buckets = <<>>
    /\ banksia_buckets = <<>>
    /\ skipped = <<>>
    /\ pool_values = <<>>
    /\ pool_results = <<>>
    /\ mc_reply = [i \in 1..Len(bucket_list) |-> NoReply]
    /\ dmf_total_size = 0
    /\ banksia_total_size = 0
    /\ total_size = 0
    /\ ret = <<>>
    /\ out_of_order = FALSE
    \* the monthly volume plot does not run
    /\ vpc = "idle"
    /\ days = SixMonthsDays
    /\ cumulative = FALSE
    /\ ingest_only = FALSE
    /\ stride_months = 0
    /\ results = <<>>
    /\ deleted_results = NoRows
    /\ row_idx = 0
    /\ this_deleted_bytes = 0
    /\ volume_bytes = 0
    /\ cumulative_volume_bytes = 0
    /\ x_axis = <<>>
    /\ y_axis = <<>>
    /\ volume_petabytes = NoFloat
    /\ DbIdle /\ DumpIdle /\ CalcIdle /\ PieIdle
    /\ ProfileIdle
    /\ WindowIdle
    /\ RunIdle
    /\ SciIdle
    /\ LogIdle
    /\ UnitsIdle

\* get_acacia_usage up to the start of its pool: every listed bucket is a task
AcaciaStart ==
    /\ UNCHANGED outsideCollector
    /\ cpc = "start" /\ collector = "acacia"
    /\ pool_values' = bucket_list
    /\ pool_results' = AllPending(bucket_list)
    /\ cpc' = "acacia_pool"
    /\ UNCHANGED <<collector, bucket_list, dmf_buckets, banksia_buckets, skipped,
                   mc_reply, dmf_total_size, banksia_total_size, total_size, ret,
                   out_of_order>>

\* get_banksia_usage up to the start of its first pool: the classification
\* loop, then the Banksia buckets are the tasks
BanksiaStart ==
    /\ UNCHANGED outsideCollector
    /\ cpc = "start" /\ collector = "banksia"
    /\ dmf_buckets' = Classified(bucket_list, "DMF")
    /\ banksia_buckets' = Classified(bucket_list, "Banksia")
    /\ skipped' = Classified(bucket_list, "Skipped")
    /\ pool_values' = banksia_buckets'
    /\ pool_results' = AllPending(banksia_buckets')
    /\ cpc' = "banksia_pool"
    /\ UNCHANGED <<collector, bucket_list, mc_reply, dmf_total_size,
                   banksia_total_size, total_size, ret, out_of_order>>

\* one task of the running pool: run_mc_du on its bucket
WorkerRuns(i) ==
    /\ UNCHANGED outsideCollector
    /\ cpc \in {"acacia_pool", "banksia_pool", "dmf_pool"}
    /\ pool_results[i] = Pending
    /\ \E answer \in McAnswers :
          /\ pool_results' = [pool_results EXCEPT ![i] = run_mc_du(answer)]
          /\ mc_reply' = [mc_reply EXCEPT
                             ![IndexOf(pool_values[i], bucket_list)] = Reply(answer)]
    /\ out_of_order' = (out_of_order \/ \E j \in 1..(i - 1) : pool_results[j] = Pending)
    /\ UNCHANGED <<cpc, collector, bucket_list, dmf_buckets, banksia_buckets,
                   skipped, pool_values, dmf_total_size, banksia_total_size,
                   total_size, ret>>

\* the end of get_acacia_usage: starmap returns, the results are summed
AcaciaJoin ==
    /\ UNCHANGED outsideCollector
    /\ cpc = "acacia_pool"
    /\ PoolComplete(pool_results)
    /\ IF PoolRaised(pool_results)
       THEN cpc' = "aborted" /\ UNCHANGED <<total_size, ret>>
       ELSE /\ total_size' = total_size + SumResults(pool_results)
            /\ ret' = <<total_size'>>
            /\ cpc' = "returned"
    /\ UNCHANGED <<collector, bucket_list, dmf_buckets, banksia_buckets, skipped,
                   pool_values, pool_results, mc_reply, dmf_total_size,
                   banksia_total_size, out_of_order>>

\* the Banksia pool ends: its results are summed and the DMF pool starts
BanksiaJoin ==
    /\ UNCHANGED outsideCollector
    /\ cpc = "banksia_pool"
    /\ PoolComplete(pool_results)
    /\ IF PoolRaised(pool_results)
       THEN cpc' = "aborted"
            /\ UNCHANGED <<banksia_total_size, pool_values, pool_results>>
       ELSE /\ banksia_total_size' = banksia_total_size + SumResults(pool_results)
            /\ pool_values' = dmf_buckets
            /\ pool_results' = AllPending(dmf_buckets)
            /\ cpc' = "dmf_pool"
    /\ UNCHANGED <<collector, bucket_list, dmf_buckets, banksia_buckets, skipped,
                   mc_reply, dmf_total_size, total_size, ret, out_of_order>>

\* the DMF pool ends: its results are summed and both totals are returned
DmfJoin ==
    /\ UNCHANGED outsideCollector
    /\ cpc = "dmf_pool"
    /\ PoolComplete(pool_results)
    /\ IF PoolRaised(pool_results)
       THEN cpc' = "aborted" /\ UNCHANGED <<dmf_total_size, ret>>
       ELSE /\ dmf_total_size' = dmf_total_size + SumResults(pool_results)
            /\ ret' = <<dmf_total_size', banksia_total_size>>
            /\ cpc' = "returned"
    /\ UNCHANGED <<collector, bucket_list, dmf_buckets, banksia_buckets, skipped,
                   pool_values, pool_results, mc_reply, banksia_total_size,
                   total_size, out_of_order>>



(***************************************************************************)
(* get_location_summary_bytes and get_deleted_data_by_month: the database  *)
(* functions on the connection pool.                                       *)
(***************************************************************************)
\* most calls of the two functions in one run
MaxQueries == 2
\* maxconn of the ThreadedConnectionPool run_stats builds
maxconn == 2

\* a text value of a result row, and SQL NULL (None in Python)
SqlText(s) == [is_null |-> FALSE, text |-> s]
SqlNull == [is_null |-> TRUE, text |-> ""]

\* a row of data_files; live: deleted_timestamp is null and remote_archived
DataFile(loc, bucket, size, live) ==
    [location |-> loc, bucket |-> bucket, size |-> size, live |-> live]

\* the rows data_files may hold: each tier, a second DMF file, a location the
\* CASE does not name, and a deleted file the WHERE clause leaves out
LiveFiles ==
    { DataFile(1, "mwa01fs", 1, TRUE), DataFile(3, "volt01fs", 2, TRUE),
      DataFile(1, "mwaingest", 4, TRUE), DataFile(2, "mwaingest", 8, TRUE),
      DataFile(4, "mwa", 16, TRUE), DataFile(5, "", 32, TRUE) }
DeletedFile == DataFile(1, "mwa02fs", 64, FALSE)
DataFileTables == {S \cup {DeletedFile} : S \in SUBSET LiveFiles}

\* the buckets the CASE expression names as DMF
DmfBucketNames == {"mwa01fs", "mwa02fs", "mwa03fs", "mwa04fs", "volt01fs"}

\* the CASE expression of the query, of src/src/stats.py or of src/stats.py
LocationLabel(v, f) ==
    IF f.location \in {1, 3}
    THEN IF f.bucket \in DmfBucketNames THEN SqlText("DMF") ELSE SqlText("Banksia")
    ELSE IF v = "current"
         THEN IF f.location = 2 THEN SqlText("Acacia_mwaingest")
              ELSE IF f.location = 4 THEN SqlText("Acacia_mwa")
              ELSE SqlNull
         ELSE IF f.location = 2 THEN SqlText("Acacia") ELSE SqlNull

\* WHERE deleted_timestamp is null and remote_archived=true ... GROUP BY 1
LocationGroup(v, files, l) == {f \in files : f.live /\ LocationLabel(v, f) = l}
LocationRows(v, files) ==
    { <<l, SumSize(LocationGroup(v, files, l))>> :
        l \in {LocationLabel(v, f) : f \in {g \in files : g.live}} }

\* the query has no ORDER BY: the rows come in any order
Orderings(S) ==
    {s \in [1..Cardinality(S) -> S] :
        \A a, b \in 1..Cardinality(S) : s[a] = s[b] => a = b}
LocationQuery(v, files) == Orderings(LocationRows(v, files))

\* variant of AcceptedRowCount that only rejects a result set that is too long
AcceptedRowCountAtMost(v, n) == IF v = "current" THEN n <= 4 ELSE n <= 3

\* the test on len(results)
AcceptedRowCount(v, n) == IF v = "current" THEN n = 3 \/ n = 4 ELSE n = 3

\* the locals of the returned tuple, in its order
TierNames(v) ==
    IF v = "current" THEN <<"DMF", "Acacia_mwaingest", "Acacia_mwa", "Banksia">>
    ELSE <<"DMF", "Acacia", "Banksia">>

\* a local variable: not assigned yet, or holding a value
Unbound == [bound |-> FALSE, value |-> 0]
Bound(x) == [bound |-> TRUE, value |-> x]

\* the locals before the query: src/src/stats.py sets all but dmf to 0,
\* src/stats.py sets none
InitialLocals(v) ==
    IF v = "current" THEN <<Unbound, Bound(0), Bound(0), Bound(0)>>
    ELSE <<Unbound, Unbound, Unbound>>

\* variant of UnexpectedLabel that lets a NULL label pass
UnexpectedLabelText(v, l) ==
    ~l.is_null /\ \A k \in 1..Len(TierNames(v)) : TierNames(v)[k] # l.text

\* the else branch of the if/elif chain: row[0] equals none of the names
UnexpectedLabel(v, l) ==
    l.is_null \/ \A k \in 1..Len(TierNames(v)) : TierNames(v)[k] # l.text

\* the branch of the if/elif chain that row takes
AssignTier(v, locals, row) ==
    [k \in 1..Len(locals) |->
        IF ~row[1].is_null /\ row[1].text = TierNames(v)[k]
        THEN Bound(row[2]) ELSE locals[k]]

RECURSIVE AssignTiers(_, _, _)
\* the for loop: it ends at the first unexpected label
AssignTiers(v, rows, locals) ==
    IF rows = <<>> THEN [unexpected |-> FALSE, locals |-> locals]
    ELSE IF UnexpectedLabel(v, rows[1][1]) THEN [unexpected |-> TRUE, locals |-> locals]
    ELSE AssignTiers(v, Tail(rows), AssignTier(v, locals, rows[1]))

\* the status of a process that called exit(code)
ExitStatus(code) == code % 256

\* the code after the finally clause.  len(None) raises TypeError; reading a
\* local that was never assigned raises UnboundLocalError; an exception nobody
\* catches ends the process with status 1.
Summarise(v, res) ==
    IF res.is_none
    THEN [pc |-> "unhandled", totals |-> <<>>, status |-> 1]
    ELSE IF ~AcceptedRowCount(v, Len(res.rows))
    THEN [pc |-> "exited", totals |-> <<>>, status |-> ExitStatus(-1)]
    ELSE LET loop == AssignTiers(v, res.rows, InitialLocals(v))
         IN  IF loop.unexpected
             THEN [pc |-> "exited", totals |-> <<>>, status |-> ExitStatus(-1)]
             ELSE IF \E k \in 1..Len(loop.locals) : ~loop.locals[k].bound
             THEN [pc |-> "unhandled", totals |-> <<>>, status |-> 1]
             ELSE [pc |-> "returned",
                   totals |-> [k \in 1..Len(loop.locals) |-> loop.locals[k].value],
                   status |-> 0]

\* variant of AfterFinally that keeps the connection
AfterFinallyKept(held, n) == n

\* finally: if conn is not None: mwa_db.putconn(conn)
AfterFinally(held, n) == IF held THEN n - 1 ELSE n

DbInit ==
    /\ qpc = "ready"
    /\ variant \in {"current", "legacy"}
    /\ query_fn = "location"
    /\ data_files \in DataFileTables
    /\ conn = FALSE
    /\ checked_out = 0
    /\ db_results = NoRows
    /\ error_logged = FALSE
    /\ tier_totals = <<>>
    /\ exit_status = 0
    /\ queries_done = 0
    /\ VolumeIdle /\ CollectorIdle /\ DumpIdle /\ CalcIdle /\ PieIdle
    /\ ProfileIdle
    /\ WindowIdle
    /\ RunIdle
    /\ SciIdle
    /\ LogIdle
    /\ UnitsIdle

\* a call of one of the two functions: conn = None, results = None
Call(fn) ==
    /\ UNCHANGED outsideDb
    /\ qpc \in {"ready", "returned"}
    /\ queries_done < MaxQueries
    /\ query_fn' = fn
    /\ conn' = FALSE
    /\ db_results' = NoRows
    /\ error_logged' = FALSE
    /\ tier_totals' = <<>>
    /\ queries_done' = queries_done + 1
    /\ qpc' = "getconn"
    /\ UNCHANGED <<variant, data_files, checked_out, exit_status>>

\* conn = mwa_db.getconn(): the pool hands out a connection unless maxconn are
\* out or the database cannot be reached; then the except clause logs
GetConn ==
    /\ UNCHANGED outsideDb
    /\ qpc = "getconn"
    /\ \E db_up \in BOOLEAN :
          IF db_up /\ checked_out < maxconn
          THEN /\ conn' = TRUE
               /\ checked_out' = checked_out + 1
               /\ qpc' = "execute"
               /\ UNCHANGED error_logged
          ELSE /\ error_logged' = TRUE
               /\ qpc' = "finally"
               /\ UNCHANGED <<conn, checked_out>>
    /\ UNCHANGED <<variant, query_fn, data_files, db_results, tier_totals,
                   exit_status, queries_done>>

\* cursor.execute and fetchall of get_location_summary_bytes
ExecuteLocation ==
    /\ UNCHANGED outsideDb
    /\ qpc = "execute" /\ query_fn = "location"
    /\ \E rows \in LocationQuery(variant, data_files) : db_results' = Rows(rows)
    /\ qpc' = "finally"
    /\ UNCHANGED <<variant, query_fn, data_files, conn, checked_out, error_logged,
                   tier_totals, exit_status, queries_done>>

\* cursor.execute and fetchall of get_deleted_data_by_month
ExecuteDeleted ==
    /\ UNCHANGED outsideDb
    /\ qpc = "execute" /\ query_fn = "deleted"
    /\ \E ddb \in DelDBs : db_results' = Rows(DeletedQuery(ddb))
    /\ qpc' = "finally"
    /\ UNCHANGED <<variant, query_fn, data_files, conn, checked_out, error_logged,
                   tier_totals, exit_status, queries_done>>

\* cursor(), execute or fetchall raises: the except clause logs the error
ExecuteRaises ==
    /\ UNCHANGED outsideDb
    /\ qpc = "execute"
    /\ error_logged' = TRUE
    /\ qpc' = "finally"
    /\ UNCHANGED <<variant, query_fn, data_files, conn, checked_out, db_results,
                   tier_totals, exit_status, queries_done>>

\* the finally clause
Finally ==
    /\ UNCHANGED outsideDb
    /\ qpc = "finally"
    /\ checked_out' = AfterFinally(conn, checked_out)
    /\ qpc' = "after"
    /\ UNCHANGED <<variant, query_fn, data_files, conn, db_results, error_logged,
                   tier_totals, exit_status, queries_done>>

\* get_location_summary_bytes after the finally clause
SummariseLocation ==
    /\ UNCHANGED outsideDb
    /\ qpc = "after" /\ query_fn = "location"
    /\ LET out == Summarise(variant, db_results)
       IN  /\ qpc' = out.pc
           /\ tier_totals' = out.totals
           /\ exit_status' = out.status
    /\ UNCHANGED <<variant, query_fn, data_files, conn, checked_out, db_results,
                   error_logged, queries_done>>

\* get_deleted_data_by_month after the finally clause: return results
ReturnDeleted ==
    /\ UNCHANGED outsideDb
    /\ qpc = "after" /\ query_fn = "deleted"
    /\ qpc' = "returned"
    /\ UNCHANGED <<variant, query_fn, data_files, conn, checked_out, db_results,
                   error_logged, tier_totals, exit_status, queries_done>>

(***************************************************************************)
(* get_duty_cycle and get_available_hours.  A float is a rational in       *)
(* lowest terms with a positive denominator.                               *)
(***************************************************************************)
\* seconds in an hour: the divisor of every conversion to hours
SecondsPerHour == 3600

RECURSIVE Gcd(_, _)
Gcd(a, b) == IF b = 0 THEN a ELSE Gcd(b, a % b)

Abs(n) == IF n < 0 THEN -n ELSE n

\* the float n / d, d # 0
Float(n, d) ==
    LET g == Gcd(Abs(n), Abs(d))
        sign == IF d < 0 THEN -1 ELSE 1
    IN  [num |-> sign * (n \div g), den |-> sign * (d \div g)]

\* the float a / b, b # 0
FloatDiv(a, b) == Float(a.num * b.den, a.den * b.num)

\* variant of get_duty_cycle that returns the hours as they are
get_duty_cycle_unscaled(hours, available_hours) ==
    IF available_hours.num > 0 THEN hours ELSE Float(0, 1)

get_duty_cycle(hours, available_hours) ==
    IF available_hours.num > 0 THEN FloatDiv(hours, available_hours) ELSE Float(0, 1)

\* the proleptic Gregorian calendar of datetime
IsLeap(y) == y % 4 = 0 /\ (y % 100 # 0 \/ y % 400 = 0)

DaysBeforeYear(y) ==
    LET p == y - 1 IN p * 365 + (p \div 4) - (p \div 100) + (p \div 400)

DaysBeforeMonth(y, m) ==
    <<0, 31, 59, 90, 120, 151, 181, 212, 243, 273, 304, 334>>[m]
      + (IF m > 2 /\ IsLeap(y) THEN 1 ELSE 0)

\* datetime(y, m, 1): the first day of a month as a day count, or ValueError
\* for a year outside MINYEAR..MAXYEAR = 1..9999 or a month outside 1..12
datetime(y, m) ==
    IF y >= 1 /\ y <= 9999 /\ m >= 1 /\ m <= 12
    THEN [ok |-> TRUE, ordinal |-> DaysBeforeYear(y) + DaysBeforeMonth(y, m) + 1]
    ELSE [ok |-> FALSE, ordinal |-> 0]

\* what a call gives: a float, or an exception
Returns(value) == [raised |-> FALSE, value |-> value]
Raises == [raised |-> TRUE, value |-> NoFloat]

\* variant of EndOfMonth that does not move to the next year after December
EndOfMonthSameYear(y, m) ==
    IF m + 1 = 13 THEN [year |-> y, month |-> 1] ELSE [year |-> y, month |-> m + 1]

\* month = month + 1; if month == 13: month = 1; year = year + 1
EndOfMonth(y, m) ==
    IF m + 1 = 13 THEN [year |-> y + 1, month |-> 1] ELSE [year |-> y, month |-> m + 1]

\* (end_date - start_date).total_seconds() / 3600: the timedelta holds whole days
get_available_hours(y, m) ==
    LET start_date == datetime(y, m)
        next == EndOfMonth(y, m)
        end_date == datetime(next.year, next.month)
    IN  IF ~start_date.ok \/ ~end_date.ok THEN Raises
        ELSE Returns(Float((end_date.ordinal - start_date.ordinal) * 24 * SecondsPerHour,
                           SecondsPerHour))

\* the arguments the two functions are applied to
HourChoices ==
    {Float(0, 1), Float(1, 2), Float(3, 2), Float(360, 1), Float(672, 1), Float(744, 1)}
AvailableChoices ==
    {Float(-24, 1), Float(0, 1), Float(24, 1), Float(672, 1), Float(720, 1), Float(744, 1)}
YearChoices == {1, 1900, 2000, 2023, 2024, 9998, 9999}

CalcInit ==
    /\ calc_pc = "call"
    /\ \/ /\ calc_fn = "get_duty_cycle"
          /\ calc_args \in {[hours |-> h, available_hours |-> a] :
                               h \in HourChoices, a \in AvailableChoices}
       \/ /\ calc_fn = "get_available_hours"
          /\ calc_args \in {[year |-> y, month |-> m] : y \in YearChoices, m \in 1..12}
    /\ calc_result = NoFloat
    /\ VolumeIdle /\ CollectorIdle /\ DbIdle /\ DumpIdle /\ PieIdle
    /\ ProfileIdle
    /\ WindowIdle
    /\ RunIdle
    /\ SciIdle
    /\ LogIdle
    /\ UnitsIdle

DutyCycle ==
    /\ UNCHANGED outsideCalc
    /\ calc_pc = "call" /\ calc_fn = "get_duty_cycle"
    /\ calc_result' = get_duty_cycle(calc_args.hours, calc_args.available_hours)
    /\ calc_pc' = "returned"
    /\ UNCHANGED <<calc_fn, calc_args>>

AvailableHours ==
    /\ UNCHANGED outsideCalc
    /\ calc_pc = "call" /\ calc_fn = "get_available_hours"
    /\ LET out == get_available_hours(calc_args.year, calc_args.month)
       IN  /\ calc_result' = out.value
           /\ calc_pc' = IF out.raised THEN "raised" ELSE "returned"
    /\ UNCHANGED <<calc_fn, calc_args>>

(***************************************************************************)
(* dump_stats and dump_monthly_stats: the loop over the rows of the query  *)
(* and the rows written to the CSV file.                                   *)
(***************************************************************************)
\* most rows a dump query returns
MaxDumpRows == 2

\* the sequences over S of at most n elements
SeqsUpTo(S, n) == UNION {[1..k -> S] : k \in 0..n}

\* what a SUM column of a row may hold: NULL, or a number (seconds, or bytes in
\* units of 10^11)
SecsChoices == {PyNone, PyInt(5400)}
BytesChoices == {PyNone, PyInt(15)}
DeletedChoices == {PyNone, PyInt(6)}

\* the result of the query of dump_stats, its numeric columns
StatsResults ==
    SeqsUpTo({[total_time_secs |-> s, total_archived_bytes |-> b, deleted_bytes |-> d] :
                 s \in SecsChoices, b \in BytesChoices, d \in DeletedChoices},
             MaxDumpRows)

\* the result of the query of dump_monthly_stats: GROUP BY 1,2 ORDER BY 1,2
MonthlyResults ==
    { [k \in DOMAIN c |->
          [reporting_year |-> MonthAt(k).year, reporting_month |-> MonthAt(k).month,
           month_secs |-> c[k].secs, month_bytes |-> c[k].bytes]] :
        c \in SeqsUpTo({[secs |-> s, bytes |-> b] : s \in SecsChoices, b \in BytesChoices},
                       MaxDumpRows) }

\* the value a None check guards: int(x) if x is not None, else nothing is added
IntOrZero(x) == IF x.is_none THEN 0 ELSE x.int

\* hours of dump_stats: int(total_time_secs) / 3600, or 0.0 for None
StatsHours(x) == IF x.is_none THEN Float(0, 1) ELSE Float(x.int, SecondsPerHour)

\* the tuple handed to writerow takes int() of the three columns with no None
\* check: int(None) raises TypeError
StatsRowRaises(row) ==
    row.total_time_secs.is_none \/ row.total_archived_bytes.is_none
        \/ row.deleted_bytes.is_none

StatsCsvRow(row) ==
    << row.total_time_secs.int, row.total_archived_bytes.int, row.deleted_bytes.int,
       StatsHours(row.total_time_secs), bytes_to_terabytes(row.total_archived_bytes) >>

\* hours = row["month_secs"] / 3600: None / 3600 raises TypeError;
\* get_available_hours may raise as well
MonthlyRowRaises(row) ==
    row.month_secs.is_none
        \/ get_available_hours(row.reporting_year, row.reporting_month).raised

MonthlyCsvRow(row) ==
    LET hrs == Float(row.month_secs.int, SecondsPerHour)
        avail == get_available_hours(row.reporting_year, row.reporting_month).value
    IN  << row.reporting_year, row.reporting_month, hrs,
           bytes_to_terabytes(row.month_bytes), avail, get_duty_cycle(hrs, avail) >>

DumpInit ==
    /\ dump_pc = "loop"
    /\ \/ dump_fn = "dump_stats" /\ dump_rows \in StatsResults
       \/ dump_fn = "dump_monthly_stats" /\ dump_rows \in MonthlyResults
    /\ dump_i = 0
    /\ csv_rows = <<>>
    /\ total_bytes = 0
    /\ deleted_bytes = 0
    /\ total_secs = 0
    /\ VolumeIdle /\ CollectorIdle /\ DbIdle /\ CalcIdle /\ PieIdle
    /\ ProfileIdle
    /\ WindowIdle
    /\ RunIdle
    /\ SciIdle
    /\ LogIdle
    /\ UnitsIdle

\* one iteration of the loop of dump_stats that writes its row
DumpStatsRow ==
    /\ UNCHANGED outsideDump
    /\ dump_pc = "loop" /\ dump_fn = "dump_stats" /\ dump_i < Len(dump_rows)
    /\ LET row == dump_rows[dump_i + 1]
       IN  /\ ~StatsRowRaises(row)
           /\ total_secs' = total_secs + IntOrZero(row.total_time_secs)
           /\ total_bytes' = total_bytes + IntOrZero(row.total_archived_bytes)
           /\ deleted_bytes' = deleted_bytes + IntOrZero(row.deleted_bytes)
           /\ csv_rows' = Append(csv_rows, StatsCsvRow(row))
    /\ dump_i' = dump_i + 1
    /\ UNCHANGED <<dump_pc, dump_fn, dump_rows>>

\* one iteration of the loop of dump_stats that raises at writerow, after the
\* totals were updated
DumpStatsRowRaises ==
    /\ UNCHANGED outsideDump
    /\ dump_pc = "loop" /\ dump_fn = "dump_stats" /\ dump_i < Len(dump_rows)
    /\ LET row == dump_rows[dump_i + 1]
       IN  /\ StatsRowRaises(row)
           /\ total_secs' = total_secs + IntOrZero(row.total_time_secs)
           /\ total_bytes' = total_bytes + IntOrZero(row.total_archived_bytes)
           /\ deleted_bytes' = deleted_bytes + IntOrZero(row.deleted_bytes)
    /\ dump_i' = dump_i + 1
    /\ dump_pc' = "crashed"
    /\ UNCHANGED <<dump_fn, dump_rows, csv_rows>>

\* one iteration of the loop of dump_monthly_stats that writes its row
DumpMonthlyRow ==
    /\ UNCHANGED outsideDump
    /\ dump_pc = "loop" /\ dump_fn = "dump_monthly_stats" /\ dump_i < Len(dump_rows)
    /\ LET row == dump_rows[dump_i + 1]
       IN  /\ ~MonthlyRowRaises(row)
           /\ csv_rows' = Append(csv_rows, MonthlyCsvRow(row))
    /\ dump_i' = dump_i + 1
    /\ UNCHANGED <<dump_pc, dump_fn, dump_rows, total_bytes, deleted_bytes, total_secs>>

\* one iteration of the loop of dump_monthly_stats that raises
DumpMonthlyRowRaises ==
    /\ UNCHANGED outsideDump
    /\ dump_pc = "loop" /\ dump_fn = "dump_monthly_stats" /\ dump_i < Len(dump_rows)
    /\ MonthlyRowRaises(dump_rows[dump_i + 1])
    /\ dump_i' = dump_i + 1
    /\ dump_pc' = "crashed"
    /\ UNCHANGED <<dump_fn, dump_rows, csv_rows, total_bytes, deleted_bytes, total_secs>>

\* the loop has taken every row: the file is closed and the count logged
DumpEnd ==
    /\ UNCHANGED outsideDump
    /\ dump_pc = "loop" /\ dump_i = Len(dump_rows)
    /\ dump_pc' = "done"
    /\ UNCHANGED <<dump_fn, dump_rows, dump_i, csv_rows, total_bytes, deleted_bytes,
                   total_secs>>

(***************************************************************************)
(* do_plot_archive_volume_per_project and                                  *)
(* do_plot_telescope_time_per_project: the slices of the pie charts.       *)
(***************************************************************************)
\* most projects a query returns
MaxProjects == 12
\* max_slices of the volume chart, and of the telescope time chart
volume_max_slices == 11
time_max_slices == 8

max_slices(fn) == IF fn = "volume" THEN volume_max_slices ELSE time_max_slices

\* what a project may total, largest first: archived bytes in units of 10^11
\* (COALESCE gives 0 for none), or seconds observed
VolumeChoices == <<15, 5, 0>>
TimeChoices == <<9000, 5400, 1800, 0>>

\* ORDER BY 3 DESC: counts[j] projects with the j-th value, in this order
Descending(values, counts) ==
    LET upto(j) == SumSeq(SubSeq(counts, 1, j))
    IN  [k \in 1..upto(Len(values)) |->
            values[CHOOSE j \in 1..Len(values) : upto(j) >= k /\ upto(j - 1) < k]]

\* the results a query may give
ProjectResults(values) ==
    { Descending(values, counts) :
        counts \in {c \in [1..Len(values) -> 0..MaxProjects] : SumSeq(c) <= MaxProjects} }

\* a label: f"{projectid}-{projectshortname}" of the k-th project, or "Other"
Named(k) == [other |-> FALSE, project |-> k]
Other == [other |-> TRUE, project |-> 0]

\* variant of BeyondCap that lets one more project through
BeyondCapLate(no, cap) == no > cap

\* if slice_no >= max_slices
BeyondCap(no, cap) == no >= cap

\* variant of WholeHours that rounds up
WholeHoursUp(secs) == (secs + SecondsPerHour - 1) \div SecondsPerHour

\* int(row["totaltime_hours"]) of COALESCE(SUM(duration),0)/3600
WholeHours(secs) == secs \div SecondsPerHour

\* the number a row adds, to other or to x_values
SliceAmount(fn, v) == IF fn = "volume" THEN v ELSE WholeHours(v)

\* the value appended to x_values for an amount: terabytes, or hours
SliceValue(fn, amount) ==
    IF fn = "volume" THEN bytes_to_terabytes(PyInt(amount)) ELSE Float(amount, 1)

PieInit ==
    /\ pie_pc = "loop"
    /\ \/ pie_fn = "volume" /\ pie_rows \in ProjectResults(VolumeChoices)
       \/ pie_fn = "time" /\ pie_rows \in ProjectResults(TimeChoices)
    /\ slice_no = 0
    /\ labels = <<>>
    /\ x_values = <<>>
    /\ other = 0
    /\ VolumeIdle /\ CollectorIdle /\ DbIdle /\ DumpIdle /\ CalcIdle
    /\ ProfileIdle
    /\ WindowIdle
    /\ RunIdle
    /\ SciIdle
    /\ LogIdle
    /\ UnitsIdle

\* an iteration of the loop below the cap: a named slice
NamedSlice ==
    /\ UNCHANGED outsidePie
    /\ pie_pc = "loop" /\ slice_no < Len(pie_rows)
    /\ ~BeyondCap(slice_no, max_slices(pie_fn))
    /\ x_values' = Append(x_values,
                          SliceValue(pie_fn, SliceAmount(pie_fn, pie_rows[slice_no + 1])))
    /\ labels' = Append(labels, Named(slice_no + 1))
    /\ slice_no' = slice_no + 1
    /\ UNCHANGED <<pie_pc, pie_fn, pie_rows, other>>

\* an iteration of the loop at or beyond the cap: the row goes to other
OtherSlice ==
    /\ UNCHANGED outsidePie
    /\ pie_pc = "loop" /\ slice_no < Len(pie_rows)
    /\ BeyondCap(slice_no, max_slices(pie_fn))
    /\ other' = other + SliceAmount(pie_fn, pie_rows[slice_no + 1])
    /\ slice_no' = slice_no + 1
    /\ UNCHANGED <<pie_pc, pie_fn, pie_rows, labels, x_values>>

\* after the loop: the slice "Other" is added, whatever it holds, and the pie drawn
PiePlot ==
    /\ UNCHANGED outsidePie
    /\ pie_pc = "loop" /\ slice_no = Len(pie_rows)
    /\ labels' = Append(labels, Other)
    /\ x_values' = Append(x_values, SliceValue(pie_fn, other))
    /\ pie_pc' = "plotted"
    /\ UNCHANGED <<pie_fn, pie_rows, slice_no, other>>

(***************************************************************************)
(* The mc profile of each bucket-size query of get_banksia_usage:          *)
(* randomise_banksia_vss_profile of src/src/stats.py, and                  *)
(* randomise_banksia_profile of src/stats.py.                              *)
(***************************************************************************)
\* most endpoint URLs the configuration lists
MaxEndpoints == 3

\* endpoint URLs of the configuration
vss1_url ==
    <<"h", "t", "t", "p", "s", ":", "/", "/", "v", "s", "s", "-", "1", ".",
      "p", "a", "w", "s", "e", "y", ".", "o", "r", "g", ".", "a", "u", ":",
      "9", "0", "0", "0">>
vss3_url ==
    <<"h", "t", "t", "p", "s", ":", "/", "/", "v", "s", "s", "-", "3", ".",
      "p", "a", "w", "s", "e", "y", ".", "o", "r", "g", ".", "a", "u", ":",
      "9", "0", "0", "0">>
vss6_url ==
    <<"h", "t", "t", "p", "s", ":", "/", "/", "v", "s", "s", "-", "6", ".",
      "p", "a", "w", "s", "e", "y", ".", "o", "r", "g", ".", "a", "u", ":",
      "9", "0", "0", "0">>
\* the one element str.split(",") gives for an empty configuration value
empty_url == <<>>
EndpointUrls == {vss1_url, vss3_url, vss6_url, empty_url}

\* banksia_endpoint_urls: str(...).split(",") gives at least one element
EndpointLists == UNION {[1..n -> EndpointUrls] : n \in 1..MaxEndpoints}

\* the profile argument of the single-endpoint variant, with and without a $
banksia_dollar ==
    <<"b", "a", "n", "k", "s", "i", "a", "$">>
banksia_plain ==
    <<"b", "a", "n", "k", "s", "i", "a">>

\* variant of VssChar that reads the character before the number
VssCharBefore(url) == url[12]

\* banksia_vss_endpoints[vss][12], the 13th character
VssChar(url) == url[13]

\* what building one profile gives: the profile, or an exception
Profile(text) == [raised |-> FALSE, text |-> text]
ProfileRaises == [raised |-> TRUE, text |-> <<>>]

\* randomise_banksia_vss_profile for the index vss that randint gave;
\* a URL shorter than 13 characters raises IndexError
randomise_banksia_vss_profile(banksia_vss_endpoints, vss) ==
    IF Len(banksia_vss_endpoints[vss + 1]) < 13 THEN ProfileRaises
    ELSE Profile(banksia_plain \o <<VssChar(banksia_vss_endpoints[vss + 1])>>)

\* the values random.randint(0, len(banksia_vss_endpoints) - 1) may give
VssIndexes(banksia_vss_endpoints) == 0..(Len(banksia_vss_endpoints) - 1)

\* randomise_banksia_profile of src/stats.py for the vss that randint(1, 6)
\* gave: str.replace takes the int vss as its second argument and raises
\* TypeError, with or without a $ in the profile
randomise_banksia_profile(profile, vss) == ProfileRaises

ProfileInit ==
    /\ prof_pc = "build"
    /\ \/ /\ profile_fn = "randomise_banksia_vss_profile"
          /\ endpoint_urls \in EndpointLists
          /\ banksia_profile = banksia_plain
       \/ /\ profile_fn = "randomise_banksia_profile"
          /\ endpoint_urls = <<>>
          /\ banksia_profile \in {banksia_dollar, banksia_plain}
    /\ n_values \in 0..MaxBuckets
    /\ mc_profiles = <<>>
    /\ VolumeIdle /\ CollectorIdle /\ DbIdle /\ DumpIdle /\ CalcIdle /\ PieIdle
    /\ WindowIdle
    /\ RunIdle
    /\ SciIdle
    /\ LogIdle
    /\ UnitsIdle

\* one element of dmf_values or banksia_values: a profile drawn for a bucket
BuildProfile ==
    /\ UNCHANGED outsideProfile
    /\ prof_pc = "build" /\ Len(mc_profiles) < n_values
    /\ profile_fn = "randomise_banksia_vss_profile"
    /\ \E vss \in VssIndexes(endpoint_urls) :
          LET drawn == randomise_banksia_vss_profile(endpoint_urls, vss)
          IN  /\ ~drawn.raised
              /\ mc_profiles' = Append(mc_profiles, drawn.text)
    /\ UNCHANGED <<prof_pc, profile_fn, endpoint_urls, banksia_profile, n_values>>

\* the draw raises: get_banksia_usage ends before either pool starts
BuildProfileRaises ==
    /\ UNCHANGED outsideProfile
    /\ prof_pc = "build" /\ Len(mc_profiles) < n_values
    /\ \/ /\ profile_fn = "randomise_banksia_vss_profile"
          /\ \E vss \in VssIndexes(endpoint_urls) :
                randomise_banksia_vss_profile(endpoint_urls, vss).raised
       \/ /\ profile_fn = "randomise_banksia_profile"
          /\ \E vss \in 1..6 : randomise_banksia_profile(banksia_profile, vss).raised
    /\ prof_pc' = "raised"
    /\ UNCHANGED <<profile_fn, endpoint_urls, banksia_profile, n_values, mc_profiles>>

\* both lists are built: the pools may start
ProfilesBuilt ==
    /\ UNCHANGED outsideProfile
    /\ prof_pc = "build" /\ Len(mc_profiles) = n_values
    /\ prof_pc' = "built"
    /\ UNCHANGED <<profile_fn, endpoint_urls, banksia_profile, n_values, mc_profiles>>

(***************************************************************************)
(* The debug dump for the quarterly report inside the row loop of          *)
(* do_plot_archive_volume_per_month, with the arguments run_stats passes.  *)
(***************************************************************************)
\* most month rows the query returns
MaxWindowRows == 4

\* the k-th calendar month counted from FirstMonth
WindowMonth(k) ==
    [year |-> FirstMonth.year + ((FirstMonth.month + k - 2) \div 12),
     month |-> ((FirstMonth.month + k - 2) % 12) + 1]

\* the rows of the query: GROUP BY 1,2 ORDER BY 1,2 gives one row per month
\* that has observations, in calendar order
RECURSIVE PickMonths(_, _)
PickMonths(S, k) ==
    IF k > MaxWindowRows THEN <<>>
    ELSE (IF k \in S THEN <<WindowMonth(k)>> ELSE <<>>) \o PickMonths(S, k + 1)

WindowRows == {PickMonths(S, 1) : S \in SUBSET (1..MaxWindowRows)}

\* special_date_from and special_date_to of the configuration: any two months
SpecialDates == {WindowMonth(k) : k \in 1..MaxWindowRows}

\* dump_year_from, dump_year_to, dump_month_from, dump_month_to of run_stats
DumpArgs(special_date_from, special_date_to) ==
    [is_none |-> FALSE,
     dump_year_from |-> special_date_from.year,
     dump_year_to |-> special_date_to.year,
     dump_month_from |-> special_date_from.month,
     dump_month_to |-> special_date_to.month]

\* the four None that the ingest_only calls pass
NoDumpArgs == [is_none |-> TRUE]

\* the all-time calls span more than 186 days, the six-month calls do not
WindowDays == {181, 184, 186, 187, 400}

\* the condition of the if, evaluated left to right with short-circuit and;
\* a comparison of the row with None raises TypeError
DumpCondition(ingest, range_days, row, w) ==
    IF ingest THEN "skip"
    ELSE IF ~(range_days > 31 * 6) THEN "skip"
    ELSE IF w.is_none THEN "raise"
    ELSE IF /\ row.year >= w.dump_year_from
            /\ row.year <= w.dump_year_to
            /\ row.month >= w.dump_month_from
            /\ row.month <= w.dump_month_to THEN "dump"
    ELSE "skip"

WindowInit ==
    /\ win_pc = "loop"
    /\ \/ /\ win_ingest_only = FALSE
          /\ dump_window \in {DumpArgs(f, t) : f \in SpecialDates, t \in SpecialDates}
       \/ /\ win_ingest_only = TRUE
          /\ dump_window = NoDumpArgs
    /\ win_days \in WindowDays
    /\ win_rows \in WindowRows
    /\ win_i = 0
    /\ dumped = <<>>
    /\ VolumeIdle /\ CollectorIdle /\ DbIdle /\ DumpIdle /\ CalcIdle /\ PieIdle
    /\ ProfileIdle
    /\ RunIdle
    /\ SciIdle
    /\ LogIdle
    /\ UnitsIdle

\* one iteration of the row loop, as far as the dump is concerned
WindowRow ==
    /\ UNCHANGED outsideWindow
    /\ win_pc = "loop" /\ win_i < Len(win_rows)
    /\ LET row == win_rows[win_i + 1]
           outcome == DumpCondition(win_ingest_only, win_days, row, dump_window)
       IN  /\ win_pc' = IF outcome = "raise" THEN "raised" ELSE "loop"
           /\ dumped' = IF outcome = "dump" THEN Append(dumped, row) ELSE dumped
    /\ win_i' = win_i + 1
    /\ UNCHANGED <<win_ingest_only, win_days, dump_window, win_rows>>

\* the loop has taken every row
WindowEnd ==
    /\ UNCHANGED outsideWindow
    /\ win_pc = "loop" /\ win_i = Len(win_rows)
    /\ win_pc' = "done"
    /\ UNCHANGED <<win_ingest_only, win_days, dump_window, win_rows, win_i, dumped>>

(***************************************************************************)
(* run_stats: the collectors, get_location_summary_bytes, the comparison   *)
(* and quota log, the three CSV dumps and the eight charts.                *)
(***************************************************************************)
CollectorPhases == <<"use_acacia_mwaingest", "use_acacia_mwa", "use_banksia">>
ReconcilePhase == "get_location_summary_bytes"
QuotaPhase == "quota"
DumpFiles == <<"stats.csv", "stats_by_month.csv", "stats_by_project.csv">>
ChartFiles ==
    <<"mwa_archive_volume_all_time.png",
      "mwa_archive_ingest_all_time.png",
      "mwa_archive_volume_by_project_all_time.png",
      "mwa_telescope_time_all_time.png",
      "mwa_archive_net_growth_last_6_months.png",
      "mwa_archive_ingest_last_6_months.png",
      "mwa_archive_volume_by_project_last_6_months.png",
      "mwa_telescope_time_last_6_months.png">>

\* the statements of run_stats in program order
Phases == CollectorPhases \o <<ReconcilePhase, QuotaPhase>> \o DumpFiles \o ChartFiles

Range(seq) == {seq[k] : k \in 1..Len(seq)}

PhaseNo(phase) == CHOOSE k \in 1..Len(Phases) : Phases[k] = phase

\* the statement after a phase that returned
NextPhase(phase) ==
    IF PhaseNo(phase) = Len(Phases) THEN "done" ELSE Phases[PhaseNo(phase) + 1]

\* variant of AfterFailure with an except that swallows the error
AfterFailureContinues(phase) == NextPhase(phase)

\* run_stats has no try: an exception or exit() of a phase ends the run
AfterFailure(phase) == "failed"

\* totals a collector or the database may report
Sizes == {1, 2}
\* a quota of the configuration; a zero quota makes the percentage raise
QuotaChoices == {0, 4}

\* the totals a collector returns: get_acacia_usage one, get_banksia_usage
\* (dmf_bytes, banksia_bytes); k is the position in CollectorPhases
CollectedInto(bytes, k, first, second) ==
    IF k = 1 THEN [bytes EXCEPT ![1] = first]
    ELSE IF k = 2 THEN [bytes EXCEPT ![2] = first]
    ELSE [bytes EXCEPT ![3] = first, ![4] = second]

RunInit ==
    /\ run_pc = Phases[1]
    /\ use_s3 \in [1..3 -> BOOLEAN]
    /\ quota_bytes \in QuotaChoices
    /\ s3_bytes = <<0, 0, 0, 0>>
    /\ db_bytes = <<>>
    /\ run_log = <<>>
    /\ written = <<>>
    /\ failed_at = ""
    /\ VolumeIdle /\ CollectorIdle /\ DbIdle /\ DumpIdle /\ CalcIdle /\ PieIdle
    /\ ProfileIdle /\ WindowIdle
    /\ SciIdle
    /\ LogIdle
    /\ UnitsIdle

\* one of the three if / else around a collector; the else leaves the totals 0
RunCollector ==
    /\ UNCHANGED outsideRun
    /\ run_pc \in Range(CollectorPhases)
    /\ IF use_s3[PhaseNo(run_pc)]
       THEN \E first \in Sizes, second \in Sizes :
               s3_bytes' = CollectedInto(s3_bytes, PhaseNo(run_pc), first, second)
       ELSE s3_bytes' = CollectedInto(s3_bytes, PhaseNo(run_pc), 0, 0)
    /\ run_log' = Append(run_log, run_pc)
    /\ run_pc' = NextPhase(run_pc)
    /\ UNCHANGED <<use_s3, quota_bytes, db_bytes, written, failed_at>>

\* the collector raises
RunCollectorFails ==
    /\ UNCHANGED outsideRun
    /\ run_pc \in Range(CollectorPhases)
    /\ use_s3[PhaseNo(run_pc)]
    /\ run_log' = Append(run_log, run_pc)
    /\ failed_at' = run_pc
    /\ run_pc' = AfterFailure(run_pc)
    /\ UNCHANGED <<use_s3, quota_bytes, s3_bytes, db_bytes, written>>

\* get_location_summary_bytes returns the four totals of the database
RunReconcile ==
    /\ UNCHANGED outsideRun
    /\ run_pc = ReconcilePhase
    /\ db_bytes' \in [1..4 -> Sizes]
    /\ run_log' = Append(run_log, run_pc)
    /\ run_pc' = NextPhase(run_pc)
    /\ UNCHANGED <<use_s3, quota_bytes, s3_bytes, written, failed_at>>

\* get_location_summary_bytes calls exit(-1) or raises
RunReconcileFails ==
    /\ UNCHANGED outsideRun
    /\ run_pc = ReconcilePhase
    /\ run_log' = Append(run_log, run_pc)
    /\ failed_at' = run_pc
    /\ run_pc' = AfterFailure(run_pc)
    /\ UNCHANGED <<use_s3, quota_bytes, s3_bytes, db_bytes, written>>

\* the comparisons are logged, whatever the totals, and the percentages of the
\* quotas computed
RunQuota ==
    /\ UNCHANGED outsideRun
    /\ run_pc = QuotaPhase
    /\ quota_bytes # 0
    /\ run_log' = Append(run_log, run_pc)
    /\ run_pc' = NextPhase(run_pc)
    /\ UNCHANGED <<use_s3, quota_bytes, s3_bytes, db_bytes, written, failed_at>>

\* acacia_mwaingest_bytes / acacia_mwaingest_quota_bytes with a zero quota
RunQuotaRaises ==
    /\ UNCHANGED outsideRun
    /\ run_pc = QuotaPhase
    /\ quota_bytes = 0
    /\ run_log' = Append(run_log, run_pc)
    /\ failed_at' = run_pc
    /\ run_pc' = AfterFailure(run_pc)
    /\ UNCHANGED <<use_s3, quota_bytes, s3_bytes, db_bytes, written>>

\* a dump opens its file, runs its query and writes the rows
RunDump ==
    /\ UNCHANGED outsideRun
    /\ run_pc \in Range(DumpFiles)
    /\ written' = Append(written, run_pc)
    /\ run_log' = Append(run_log, run_pc)
    /\ run_pc' = NextPhase(run_pc)
    /\ UNCHANGED <<use_s3, quota_bytes, s3_bytes, db_bytes, failed_at>>

\* the query or a row of the dump raises after the file was opened
RunDumpRaises ==
    /\ UNCHANGED outsideRun
    /\ run_pc \in Range(DumpFiles)
    /\ written' = Append(written, run_pc)
    /\ run_log' = Append(run_log, run_pc)
    /\ failed_at' = run_pc
    /\ run_pc' = AfterFailure(run_pc)
    /\ UNCHANGED <<use_s3, quota_bytes, s3_bytes, db_bytes>>

\* a chart: its query, its series, and plt.savefig as the last statement
RunPlot ==
    /\ UNCHANGED outsideRun
    /\ run_pc \in Range(ChartFiles)
    /\ written' = Append(written, run_pc)
    /\ run_log' = Append(run_log, run_pc)
    /\ run_pc' = NextPhase(run_pc)
    /\ UNCHANGED <<use_s3, quota_bytes, s3_bytes, db_bytes, failed_at>>

\* the chart raises before plt.savefig
RunPlotRaises ==
    /\ UNCHANGED outsideRun
    /\ run_pc \in Range(ChartFiles)
    /\ run_log' = Append(run_log, run_pc)
    /\ failed_at' = run_pc
    /\ run_pc' = AfterFailure(run_pc)
    /\ UNCHANGED <<use_s3, quota_bytes, s3_bytes, db_bytes, written>>

(***************************************************************************)
(* src/volume_per_sci_plots.py: the projects of the CSV file in descending *)
(* order of volume, the cumulative fraction and the totals per science     *)
(* category.  The volumes of the model are whole numbers, which a float    *)
(* holds and adds exactly.                                                 *)
(***************************************************************************)
\* most rows of a CSV file whose rows are drawn freely
MaxSciRows == 3

cat_lookup ==
    <<"EoR", "SHI", "GEG", "Transients", "Pulsars and FT", "Calibration", "Misc">>

\* the dict display of cats as it is written: (key, value) in order; the
\* source spells MAGE-X with the characters U+00AD U+2010 for the hyphen
cats_literal ==
    << <<"Sun Drifts", 1>>,
       <<"GLEAM", 2>>,
       <<"FRBs with the MWA", 4>>,
       <<"Shadowing Parkes FRB observations", 4>>,
       <<"Solar Observations", 1>>,
       <<"EoR", 0>>,
       <<"Calibration", 5>>,
       <<"MWA pulsar survey", 4>>,
       <<"Low-freq investigations of Parkes pta MSP", 4>>,
       <<"Unspecified Director's time", 6>>,
       <<"Global EoR with the moon", 0>>,
       <<"Voltage capture testing", 4>>,
       <<"IPS survey", 3>>,
       <<"Synchrotron Cosmic Web", 2>>,
       <<"MIDAS", 2>>,
       <<"HIghZ: A search for HI absorption in high-redshift radio galaxies", 2>>,
       <<"IPS", 3>>,
       <<"MWA targeted campaign of nearby, flaring M dwarf stars", 2>>,
       <<"Shadowing Parkes FRB observations", 4>>,
       <<"AAVS0.5 tests", 6>>,
       <<"MAGE-X: A Deep Survey of the Magellanic System", 2>>,
       <<"EoR SKA Fields", 0>>,
       <<"The MWA long-term radio sky monitor", 3>>,
       <<"Cosmic web observation", 2>>,
       <<"Detecting Molecular Lines with the MWA", 2>>,
       <<"MWA KAT-7 clusters", 2>>,
       <<"Intermediate dispersion pulsar scattering", 4>>,
       <<"MWA diffuse cluster emission", 2>>,
       <<"Follow up observations of UV Ceti", 3>>,
       <<"Default", 6>>,
       <<"FAST pulsar candidate", 4>>,
       <<"Orbital dynamics of PSR J1145-6545", 4>>,
       <<"Dispersion variation in J2241-5236", 4>>,
       <<"Proxima Centauri", 2>>,
       <<"Space Situational Awareness (VCS)", 4>>,
       <<"Radio pules from the Geminga Pulsar", 4>>,
       <<"Instrument Verification Program", 6>>,
       <<"Monitoring the Galaxy", 3>>,
       <<"RRLs in GC and NGC6334", 2>>,
       <<"IPS observations for SKA calibration analysis", 3>>,
       <<"Nearby Low-Luminosity QSOs", 2>>,
       <<"Searching for pulsars in the image domain: pilot study", 3>> >>

RECURSIVE DictOf(_)
\* a dict display keeps a key at the position of its first occurrence and
\* gives it the value of its last one
DictOf(pairs) ==
    IF pairs = <<>> THEN <<>>
    ELSE LET init == DictOf(SubSeq(pairs, 1, Len(pairs) - 1))
             last == pairs[Len(pairs)]
         IN  IF \E k \in 1..Len(init) : init[k][1] = last[1]
             THEN [k \in 1..Len(init) |->
                      IF init[k][1] = last[1] THEN last ELSE init[k]]
             ELSE Append(init, last)

\* cats: the keys in insertion order, each with its index into cat_lookup
cats == DictOf(cats_literal)

\* a description that is not a key of cats
unlisted == "Unlisted project"

CsvRow(desc, vol) == [desc |-> desc, vol |-> vol]

\* CSV files of a few rows, drawn freely
SmallCsvRows ==
    {CsvRow(desc, vol) : desc \in {"GLEAM", "EoR", unlisted}, vol \in 0..2}
SmallCsvFiles == UNION {[1..n -> SmallCsvRows] : n \in 0..MaxSciRows}

\* CSV files with at least as many projects as cats has keys, all volumes
\* different: the project of the k-th key has the k-th largest volume ...
CsvKeysDescending == [k \in 1..Len(cats) |-> CsvRow(cats[k][1], Len(cats) + 1 - k)]
\* ... or the k-th smallest, or no project has a description in cats, or one
\* unlisted project is larger than the listed ones
CsvKeysAscending == [k \in 1..Len(cats) |-> CsvRow(cats[k][1], k)]
CsvAllUnlisted == [k \in 1..Len(cats) |-> CsvRow(unlisted, k)]
CsvUnlistedLargest == <<CsvRow(unlisted, Len(cats) + 1)>> \o CsvKeysDescending
LargeCsvFiles ==
    {CsvKeysDescending, CsvKeysAscending, CsvAllUnlisted, CsvUnlistedLargest}

RECURSIVE InsertAscending(_, _)
\* the place of a row in rows already in ascending order, behind its equals
InsertAscending(row, sorted) ==
    IF sorted = <<>> THEN <<row>>
    ELSE IF row.vol < sorted[1].vol THEN <<row>> \o sorted
    ELSE <<sorted[1]>> \o InsertAscending(row, Tail(sorted))

RECURSIVE Ascending(_)
\* np.argsort: ascending, and for the short arrays of SmallCsvFiles (insertion
\* sort) equal volumes keep the order of the file
Ascending(rows) ==
    IF rows = <<>> THEN <<>>
    ELSE InsertAscending(rows[Len(rows)], Ascending(SubSeq(rows, 1, Len(rows) - 1)))

\* [-1::-1]
Reversed(seq) == [k \in 1..Len(seq) |-> seq[Len(seq) + 1 - k]]

\* data[order] for order = np.argsort(data[:, 2].astype(float))[-1::-1]
SortedDescending(rows) == Reversed(Ascending(rows))

\* 0.0 / 0.0 of numpy: nan, with a warning
nan == [num |-> 0, den |-> 0]

\* variant of CumFracAt that leaves the i-th project out of its own sum
CumFracBefore(sorted_vols, k) ==
    IF SumSeq(sorted_vols) = 0 THEN nan
    ELSE Float(SumSeq(SubSeq(sorted_vols, 1, k - 1)), SumSeq(sorted_vols))

\* np.sum(vols[:i + 1]) / vols.sum() for i = k - 1
CumFracAt(sorted_vols, k) ==
    IF SumSeq(sorted_vols) = 0 THEN nan
    ELSE Float(SumSeq(SubSeq(sorted_vols, 1, k)), SumSeq(sorted_vols))

RECURSIVE CatTotals(_, _, _)
\* the loop over enumerate(cats.keys()) from index i on: the i-th key adds
\* vols[i] to the total of its category
CatTotals(sorted_vols, k, totals) ==
    IF k > Len(cats) THEN totals
    ELSE CatTotals(sorted_vols, k + 1,
                   [totals EXCEPT ![cats[k][2] + 1] = @ + sorted_vols[k]])

SciInit ==
    /\ sci_pc = "read"
    /\ sci_data \in SmallCsvFiles \cup LargeCsvFiles
    /\ descs = <<>>
    /\ vols = <<>>
    /\ cum_frac = <<>>
    /\ cat_totals = <<>>
    /\ VolumeIdle /\ CollectorIdle /\ DbIdle /\ DumpIdle /\ CalcIdle /\ PieIdle
    /\ ProfileIdle /\ WindowIdle /\ RunIdle
    /\ LogIdle
    /\ UnitsIdle

\* lines 33-36: the columns in descending order of volume
SciSort ==
    /\ UNCHANGED outsideSci
    /\ sci_pc = "read" /\ sci_data # <<>>
    /\ descs' = [k \in 1..Len(sci_data) |-> SortedDescending(sci_data)[k].desc]
    /\ vols' = [k \in 1..Len(sci_data) |-> SortedDescending(sci_data)[k].vol]
    /\ sci_pc' = "sorted"
    /\ UNCHANGED <<sci_data, cum_frac, cat_totals>>

\* a file with a header only: np.array([]) has one axis and data[:, 2] raises
SciSortRaises ==
    /\ UNCHANGED outsideSci
    /\ sci_pc = "read" /\ sci_data = <<>>
    /\ sci_pc' = "raised"
    /\ UNCHANGED <<sci_data, descs, vols, cum_frac, cat_totals>>

\* lines 85-88: the loop that fills cum_frac
SciCumFrac ==
    /\ UNCHANGED outsideSci
    /\ sci_pc = "sorted"
    /\ cum_frac' = [k \in 1..Len(vols) |-> CumFracAt(vols, k)]
    /\ sci_pc' = "cum_frac"
    /\ UNCHANGED <<sci_data, descs, vols, cat_totals>>

\* lines 90-92: the loop that fills cat_totals
SciCatTotals ==
    /\ UNCHANGED outsideSci
    /\ sci_pc = "cum_frac"
    /\ Len(vols) >= Len(cats)
    /\ cat_totals' = CatTotals(vols, 1, [c \in 1..Len(cat_lookup) |-> 0])
    /\ sci_pc' = "done"
    /\ UNCHANGED <<sci_data, descs, vols, cum_frac>>

\* fewer projects than keys: vols[i] raises IndexError at i = nproj
SciCatTotalsRaises ==
    /\ UNCHANGED outsideSci
    /\ sci_pc = "cum_frac"
    /\ Len(vols) < Len(cats)
    /\ sci_pc' = "raised"
    /\ UNCHANGED <<sci_data, descs, vols, cum_frac, cat_totals>>

(***************************************************************************)
(* parse_mwadmget_log of src/staging_log_scraping.py.  A line of the log   *)
(* is modelled by whether it holds the token "Staging time:", whether its  *)
(* first 19 characters are a date and time, and, character by character,   *)
(* by what follows the token up to the end of the line.                    *)
(***************************************************************************)
\* most lines of a log file
MaxLogLines == 3

\* what follows the token in a line of the expected form: a blank, the
\* value, " secs" and the newline, which the last line of a file may lack
secs == <<" ", "s", "e", "c", "s">>
newline == <<"\n">>

\* values of staging times as they may stand in a line
ValueTexts ==
    { <<"0", ".", "3", "1">>, <<"1", "2">>, <<"2", ".", "9">>, <<"-", "4">>,
      <<"a", "b", "c">>, <<"n", "a", "n">>, <<"i", "n", "f">> }

LogLine(token, stamp, value, eol) ==
    [token |-> token, stamp |-> stamp, rest |-> <<" ">> \o value \o secs \o eol]

\* a line without the token; a line with the token, with or without a date
\* that strptime accepts, with or without its newline
PlainLine == [token |-> FALSE, stamp |-> TRUE, rest |-> <<>>]
TokenLines(eols) ==
    {LogLine(TRUE, stamp, value, eol) :
        stamp \in BOOLEAN, value \in ValueTexts, eol \in eols}

\* the files: every line but the last ends with a newline
LogFiles(max_lines) ==
    {<<>>} \cup
    UNION { {init \o <<last>> :
                init \in [1..(n - 1) -> {PlainLine} \cup TokenLines({newline})],
                last \in {PlainLine} \cup TokenLines({newline, <<>>})} :
            n \in 1..max_lines }

RECURSIVE StripLeft(_)
StripLeft(text) ==
    IF text # <<>> /\ text[1] \in {" ", "\n"} THEN StripLeft(Tail(text)) ELSE text

\* str.strip of blanks and newlines, which float() applies to its argument
Strip(text) == Reversed(StripLeft(Reversed(StripLeft(text))))

DigitChars == <<"0", "1", "2", "3", "4", "5", "6", "7", "8", "9">>
IsDigit(c) == \E d \in 1..10 : DigitChars[d] = c
DigitValue(c) == (CHOOSE d \in 1..10 : DigitChars[d] = c) - 1

RECURSIVE Decimal(_, _, _, _)
\* digits with at most one point, read left to right into num / den
Decimal(text, num, den, seen_point) ==
    IF text = <<>> THEN [ok |-> TRUE, num |-> num, den |-> den]
    ELSE IF IsDigit(text[1])
         THEN Decimal(Tail(text), num * 10 + DigitValue(text[1]),
                      IF seen_point THEN den * 10 ELSE den, seen_point)
    ELSE IF text[1] = "." /\ ~seen_point
         THEN Decimal(Tail(text), num, den, TRUE)
    ELSE [ok |-> FALSE, num |-> 0, den |-> 1]

\* float(text) for the texts of the model: "nan", "inf", or an optional sign
\* and a decimal number with at least one digit; otherwise ValueError
PyFloat(text) ==
    LET body == Strip(text)
        unsigned == IF body # <<>> /\ body[1] \in {"-", "+"} THEN Tail(body) ELSE body
        sign == IF body # <<>> /\ body[1] = "-" THEN -1 ELSE 1
        dec == Decimal(unsigned, 0, 1, FALSE)
    IN  IF unsigned = <<"n", "a", "n">> THEN [kind |-> "nan", num |-> 0, den |-> 1]
        ELSE IF unsigned = <<"i", "n", "f">> THEN [kind |-> "inf", num |-> sign, den |-> 1]
        ELSE IF dec.ok /\ \E k \in 1..Len(unsigned) : IsDigit(unsigned[k])
             THEN [kind |-> "finite", num |-> sign * dec.num, den |-> dec.den]
        ELSE [kind |-> "ValueError", num |-> 0, den |-> 1]

\* int(x) of a finite float: truncation towards zero
PyInt_of(x) ==
    IF x.num >= 0 THEN x.num \div x.den ELSE -((-x.num) \div x.den)

\* line[start_pos:end_pos] with end_pos = len(line) - 6
ValueSlice(line) == SubSeq(line.rest, 1, Len(line.rest) - 6)

\* the body of the else branch for a line with the token: the seconds to
\* store, or the exception raised; nan < 1 is false and int(nan) raises
\* ValueError, int(inf) raises OverflowError
StagingSeconds(line) ==
    LET staging_seconds == PyFloat(ValueSlice(line))
    IN  IF staging_seconds.kind = "ValueError" THEN [raised |-> "ValueError", int |-> 0]
        ELSE IF staging_seconds.kind = "nan" THEN [raised |-> "ValueError", int |-> 0]
        ELSE IF staging_seconds.kind = "inf"
             THEN IF staging_seconds.num < 0 THEN [raised |-> "", int |-> 1]
                  ELSE [raised |-> "OverflowError", int |-> 0]
        ELSE IF staging_seconds.num < staging_seconds.den THEN [raised |-> "", int |-> 1]
        ELSE [raised |-> "", int |-> PyInt_of(staging_seconds)]

\* variant of AfterUnparseable that counts the line
AfterUnparseableCounted(n) == n + 1

\* line_no after the except branch: continue skips line_no = line_no + 1
AfterUnparseable(n) == n

LogInit ==
    /\ log_pc = "loop"
    /\ log_lines \in LogFiles(MaxLogLines)
    /\ lines_read = 0
    /\ line_no = 1
    /\ data_list = <<>>
    /\ printed = <<>>
    /\ mwa_staging = <<>>
    /\ log_ret = <<>>
    /\ VolumeIdle /\ CollectorIdle /\ DbIdle /\ DumpIdle /\ CalcIdle /\ PieIdle
    /\ ProfileIdle /\ WindowIdle /\ RunIdle /\ SciIdle
    /\ UnitsIdle

NextLine == log_lines[lines_read + 1]

\* a line without the token
LogLineWithoutToken ==
    /\ UNCHANGED outsideLog
    /\ log_pc = "loop" /\ lines_read < Len(log_lines)
    /\ ~NextLine.token
    /\ lines_read' = lines_read + 1
    /\ line_no' = line_no + 1
    /\ UNCHANGED <<log_pc, log_lines, data_list, printed, mwa_staging, log_ret>>

\* a line with the token, a date and a value: an entry is appended
LogLineStored ==
    /\ UNCHANGED outsideLog
    /\ log_pc = "loop" /\ lines_read < Len(log_lines)
    /\ NextLine.token /\ NextLine.stamp
    /\ StagingSeconds(NextLine).raised = ""
    /\ data_list' = Append(data_list, [staging_date_time |-> lines_read + 1,
                                       staging_seconds |-> StagingSeconds(NextLine).int])
    /\ lines_read' = lines_read + 1
    /\ line_no' = line_no + 1
    /\ UNCHANGED <<log_pc, log_lines, printed, mwa_staging, log_ret>>

\* the except ValueError branch: the message is printed and the loop continues
LogLineCannotParse ==
    /\ UNCHANGED outsideLog
    /\ log_pc = "loop" /\ lines_read < Len(log_lines)
    /\ NextLine.token /\ NextLine.stamp
    /\ StagingSeconds(NextLine).raised = "ValueError"
    /\ printed' = Append(printed, [line_no |-> line_no, line |-> lines_read + 1])
    /\ lines_read' = lines_read + 1
    /\ line_no' = AfterUnparseable(line_no)
    /\ UNCHANGED <<log_pc, log_lines, data_list, mwa_staging, log_ret>>

\* strptime raises ValueError outside the try, or int() raises OverflowError:
\* parse_mwadmget_log ends with the exception and nothing is inserted
LogLineRaises ==
    /\ UNCHANGED outsideLog
    /\ log_pc = "loop" /\ lines_read < Len(log_lines)
    /\ NextLine.token
    /\ ~NextLine.stamp \/ StagingSeconds(NextLine).raised = "OverflowError"
    /\ lines_read' = lines_read + 1
    /\ log_pc' = "aborted"
    /\ UNCHANGED <<log_lines, line_no, data_list, printed, mwa_staging, log_ret>>

\* after the loop: the entries are inserted and their number is returned
LogInsert ==
    /\ UNCHANGED outsideLog
    /\ log_pc = "loop" /\ lines_read = Len(log_lines)
    /\ mwa_staging' = data_list
    /\ log_ret' = <<Len(data_list)>>
    /\ log_pc' = "returned"
    /\ UNCHANGED <<log_lines, lines_read, line_no, data_list, printed>>

(***************************************************************************)
(* bytes_to_terabytes and bytes_to_petabytes in the arithmetic of Python's *)
(* float, IEEE 754 binary64 with round to nearest, ties to even.           *)
(*                                                                         *)
(* A natural number of any size is the sequence of its limbs, numbers      *)
(* below Base, lowest first, without leading zeros.  A float is [m, e]     *)
(* with the value m * 2^e, where m is a natural number of exactly 53 bits, *)
(* or zero (m = <<>>, e = 0); the values of the model are non-negative and *)
(* far from overflow and underflow.                                        *)
(***************************************************************************)
\* the limbs hold 14 bits, so that a product of two limbs is a small integer
LimbBits == 14
Base == 2^LimbBits

RECURSIVE LimbsOf(_)
LimbsOf(n) == IF n = 0 THEN <<>> ELSE <<n % Base>> \o LimbsOf(n \div Base)

RECURSIVE Trim(_)
Trim(a) == IF a # <<>> /\ a[Len(a)] = 0 THEN Trim(SubSeq(a, 1, Len(a) - 1)) ELSE a

Limb(a, k) == IF k >= 1 /\ k <= Len(a) THEN a[k] ELSE 0

RECURSIVE AddFrom(_, _, _, _)
\* the limbs from position k on of a + b, with the carry into position k
AddFrom(a, b, k, carry) ==
    IF k > Len(a) /\ k > Len(b) THEN (IF carry = 0 THEN <<>> ELSE <<carry>>)
    ELSE <<(Limb(a, k) + Limb(b, k) + carry) % Base>>
         \o AddFrom(a, b, k + 1, (Limb(a, k) + Limb(b, k) + carry) \div Base)

BigAdd(a, b) == AddFrom(a, b, 1, 0)

RECURSIVE SubFrom(_, _, _, _)
SubFrom(a, b, k, borrow) ==
    IF k > Len(a) THEN <<>>
    ELSE <<(a[k] - Limb(b, k) - borrow) % Base>>
         \o SubFrom(a, b, k + 1, IF a[k] - Limb(b, k) - borrow < 0 THEN 1 ELSE 0)

\* a - b for a >= b
BigSub(a, b) == Trim(SubFrom(a, b, 1, 0))

\* a < b: the highest limb in which they differ decides
BigLess(a, b) ==
    IF Len(a) # Len(b) THEN Len(a) < Len(b)
    ELSE \E k \in 1..Len(a) :
            /\ a[k] < b[k]
            /\ \A j \in (k + 1)..Len(a) : a[j] = b[j]

RECURSIVE MulFrom(_, _, _, _)
\* the limbs from position k on of a * s + carry, for a small s
MulFrom(a, s, k, carry) ==
    IF k > Len(a) THEN (IF carry = 0 THEN <<>> ELSE <<carry>>)
    ELSE <<(a[k] * s + carry) % Base>>
         \o MulFrom(a, s, k + 1, (a[k] * s + carry) \div Base)

MulSmall(a, s) == Trim(MulFrom(a, s, 1, 0))

RECURSIVE BigMul(_, _)
BigMul(a, b) ==
    IF b = <<>> \/ a = <<>> THEN <<>>
    ELSE BigAdd(MulSmall(a, b[1]),
                LET rest == BigMul(a, Tail(b))
                IN  IF rest = <<>> THEN <<>> ELSE <<0>> \o rest)

\* the number of bits of a limb, and of a number
LimbLen(n) == IF n = 0 THEN 0 ELSE CHOOSE k \in 1..LimbBits : 2^(k - 1) <= n /\ n < 2^k
BitLen(a) == IF a = <<>> THEN 0 ELSE LimbBits * (Len(a) - 1) + LimbLen(a[Len(a)])

\* bit i of a, the lowest being bit 1
BitAt(a, i) == (Limb(a, ((i - 1) \div LimbBits) + 1) \div 2^((i - 1) % LimbBits)) % 2

\* a * 2^s
ShiftLeft(a, s) ==
    IF a = <<>> THEN <<>>
    ELSE [j \in 1..(s \div LimbBits) |-> 0] \o MulSmall(a, 2^(s % LimbBits))

\* a \div 2^s
ShiftRight(a, s) ==
    LET whole == s \div LimbBits
        part == s % LimbBits
    IN  Trim([j \in 1..(Len(a) - whole) |->
                 (Limb(a, j + whole) \div 2^part)
                 + (Limb(a, j + whole + 1) % 2^part) * 2^(LimbBits - part)])

\* a % 2^s # 0
LowBitsSet(a, s) == \E i \in 1..s : BitAt(a, i) = 1

\* one step of the long division of a by b: bit k of a comes down
DivStep(a, b, k, qr) ==
    LET r2 == Trim(MulFrom(qr.r, 2, 1, BitAt(a, k)))
    IN  IF BigLess(r2, b) THEN [q |-> MulSmall(qr.q, 2), r |-> r2]
        ELSE [q |-> Trim(MulFrom(qr.q, 2, 1, 1)), r |-> BigSub(r2, b)]

RECURSIVE DivSteps(_, _, _, _, _)
\* the steps for the bits hi down to lo of a, by halves
DivSteps(a, b, hi, lo, qr) ==
    IF hi = lo THEN DivStep(a, b, hi, qr)
    ELSE LET mid == (hi + lo) \div 2
             upper == DivSteps(a, b, hi, mid + 1, qr)
         IN  \* the test has the upper half evaluated before the lower one
             IF Len(upper.q) >= 0 THEN DivSteps(a, b, mid, lo, upper) ELSE upper

\* quotient and remainder of a by b, for a # 0 and b # 0: the highest bits of
\* a, one fewer than b has, are below b and come down at once
BigDivMod(a, b) ==
    IF BitLen(a) < BitLen(b) THEN [q |-> <<>>, r |-> a]
    ELSE LET rest == BitLen(a) - BitLen(b) + 1
         IN  DivSteps(a, b, rest, 1, [q |-> <<>>, r |-> ShiftRight(a, rest)])

\* the bits of the significand of a binary64
Precision == 53

Zero64 == [m |-> <<>>, e |-> 0]

\* the float nearest to n * 2^e, or to a value just above it when sticky is
\* set; ties go to the even significand
Round64(n, e, sticky) ==
    IF n = <<>> THEN Zero64
    ELSE IF BitLen(n) <= Precision
         THEN [m |-> ShiftLeft(n, Precision - BitLen(n)),
               e |-> e - (Precision - BitLen(n))]
    ELSE LET d == BitLen(n) - Precision
             kept == ShiftRight(n, d)
             low == sticky \/ LowBitsSet(n, d - 1)
             up == BitAt(n, d) = 1 /\ (low \/ BitAt(kept, 1) = 1)
             m0 == IF up THEN BigAdd(kept, <<1>>) ELSE kept
         IN  IF BitLen(m0) > Precision
             THEN [m |-> ShiftRight(m0, 1), e |-> e + d + 1]
             ELSE [m |-> m0, e |-> e + d]

\* float(n) for an int n
Float64(n) == Round64(n, 0, FALSE)

\* a * b
Mul64(a, b) == Round64(BigMul(a.m, b.m), a.e + b.e, FALSE)

\* a / b for b # 0: the quotient of the significands to 56 or 57 bits, the
\* remainder as the sticky bit
Div64(a, b) ==
    IF a.m = <<>> THEN Zero64
    ELSE LET qr == BigDivMod(ShiftLeft(a.m, Precision + 3), b.m)
         IN  Round64(qr.q, a.e - b.e - (Precision + 3), qr.r # <<>>)

\* the literal 1000.0
Thousand == Float64(LimbsOf(1000))
\* variant of Thousand for binary units
Kibi == Float64(LimbsOf(1024))

\* variant of TeraDivisor for binary units
TeraDivisorBinary == Mul64(Mul64(Mul64(Kibi, Kibi), Kibi), Kibi)

\* 1000.0 * 1000.0 * 1000.0 * 1000.0, evaluated left to right
TeraDivisor == Mul64(Mul64(Mul64(Thousand, Thousand), Thousand), Thousand)
\* 1000.0 * 1000.0 * 1000.0 * 1000.0 * 1000.0
PetaDivisor == Mul64(TeraDivisor, Thousand)


\* an int argument, and None
IntValue(limbs) == [is_none |-> FALSE, limbs |-> limbs]
NoneValue == [is_none |-> TRUE, limbs |-> <<>>]

bytes_to_terabytes64(value) ==
    IF value.is_none THEN Zero64 ELSE Div64(Float64(value.limbs), TeraDivisor)

bytes_to_petabytes64(value) ==
    IF value.is_none THEN Zero64 ELSE Div64(Float64(value.limbs), PetaDivisor)

\* the largest of the small byte counts the arguments are drawn from
MaxByteCount == 60

\* byte counts of the size of the archive: 10^12, 10^15, and a few near them
Tera == BigMul(LimbsOf(1000000), LimbsOf(1000000))
Peta == BigMul(Tera, LimbsOf(1000))
LargeByteCounts ==
    {Tera, Peta, BigAdd(Peta, LimbsOf(1)), MulSmall(Peta, 3),
     BigAdd(BigMul(Tera, LimbsOf(26437)), LimbsOf(123456789))}

ByteValues ==
    {NoneValue} \cup {IntValue(LimbsOf(n)) : n \in 0..MaxByteCount}
                \cup {IntValue(n) : n \in LargeByteCounts}

UnitsInit ==
    /\ unit_pc = "call"
    /\ unit_arg \in ByteValues
    /\ terabytes = <<>>
    /\ petabytes = <<>>
    /\ VolumeIdle /\ CollectorIdle /\ DbIdle /\ DumpIdle /\ CalcIdle /\ PieIdle
    /\ ProfileIdle /\ WindowIdle /\ RunIdle /\ SciIdle /\ LogIdle

\* a call of bytes_to_terabytes
BytesToTerabytes ==
    /\ UNCHANGED outsideUnits
    /\ unit_pc = "call" /\ terabytes = <<>>
    /\ terabytes' = <<bytes_to_terabytes64(unit_arg)>>
    /\ unit_pc' = IF petabytes # <<>> THEN "returned" ELSE "call"
    /\ UNCHANGED <<unit_arg, petabytes>>

\* a call of bytes_to_petabytes
BytesToPetabytes ==
    /\ UNCHANGED outsideUnits
    /\ unit_pc = "call" /\ petabytes = <<>>
    /\ petabytes' = <<bytes_to_petabytes64(unit_arg)>>
    /\ unit_pc' = IF terabytes # <<>> THEN "returned" ELSE "call"
    /\ UNCHANGED <<unit_arg, terabytes>>

(***************************************************************************)
(* The specifications.                                                     *)
(***************************************************************************)
VolumeNext ==
    \/ RunQueries
    \/ QueryRaises
    \/ ProcessRow
    \/ ProcessRowRaises
    \/ Plot

CollectorNext ==
    \/ AcaciaStart
    \/ BanksiaStart
    \/ \E i \in 1..Len(pool_results) : WorkerRuns(i)
    \/ AcaciaJoin
    \/ BanksiaJoin
    \/ DmfJoin

SpecVolume == VolumeInit /\ [][VolumeNext]_vars

DbNext ==
    \/ \E fn \in {"location", "deleted"} : Call(fn)
    \/ GetConn
    \/ ExecuteLocation
    \/ ExecuteDeleted
    \/ ExecuteRaises
    \/ Finally
    \/ SummariseLocation
    \/ ReturnDeleted

SpecCollector == CollectorInit /\ [][CollectorNext]_vars

CalcNext ==
    \/ DutyCycle
    \/ AvailableHours

DumpNext ==
    \/ DumpStatsRow
    \/ DumpStatsRowRaises
    \/ DumpMonthlyRow
    \/ DumpMonthlyRowRaises
    \/ DumpEnd

SpecDb == DbInit /\ [][DbNext]_vars

SpecCalc == CalcInit /\ [][CalcNext]_vars

SpecDump == DumpInit /\ [][DumpNext]_vars

PieNext ==
    \/ NamedSlice
    \/ OtherSlice
    \/ PiePlot

SpecPie == PieInit /\ [][PieNext]_vars

ProfileNext ==
    \/ BuildProfile
    \/ BuildProfileRaises
    \/ ProfilesBuilt

SpecProfile == ProfileInit /\ [][ProfileNext]_vars

WindowNext ==
    \/ WindowRow
    \/ WindowEnd

SpecWindow == WindowInit /\ [][WindowNext]_vars

RunNext ==
    \/ RunCollector
    \/ RunCollectorFails
    \/ RunReconcile
    \/ RunReconcileFails
    \/ RunQuota
    \/ RunQuotaRaises
    \/ RunDump
    \/ RunDumpRaises
    \/ RunPlot
    \/ RunPlotRaises

SpecRun == RunInit /\ [][RunNext]_vars

SciNext ==
    \/ SciSort
    \/ SciSortRaises
    \/ SciCumFrac
    \/ SciCatTotals
    \/ SciCatTotalsRaises

SpecSci == SciInit /\ [][SciNext]_vars

LogNext ==
    \/ LogLineWithoutToken
    \/ LogLineStored
    \/ LogLineCannotParse
    \/ LogLineRaises
    \/ LogInsert

SpecLog == LogInit /\ [][LogNext]_vars

UnitsNext ==
    \/ BytesToTerabytes
    \/ BytesToPetabytes

SpecUnits == UnitsInit /\ [][UnitsNext]_vars

Init ==
    \/ VolumeInit
    \/ CollectorInit
    \/ DbInit
    \/ CalcInit
    \/ DumpInit
    \/ PieInit
    \/ ProfileInit
    \/ WindowInit
    \/ RunInit
    \/ SciInit
    \/ LogInit
    \/ UnitsInit

Next ==
    \/ VolumeNext
    \/ CollectorNext
    \/ DbNext
    \/ CalcNext
    \/ DumpNext
    \/ PieNext
    \/ ProfileNext
    \/ WindowNext
    \/ RunNext
    \/ SciNext
    \/ LogNext
    \/ UnitsNext

Spec == Init /\ [][Next]_vars

(***************************************************************************)
(* Properties of the monthly volume series.                                *)
(***************************************************************************)
\* a step of the loop that completed its iteration
RowProcessed == vpc = "loop" /\ vpc' = "loop" /\ row_idx' = row_idx + 1

\* the deletion query's total for a (year, month), 0 if it returned no such row
DeletedInMonth(y, m) ==
    IF deleted_results.is_none THEN 0
    ELSE LET hits == {j \in 1..Len(deleted_results.rows) :
                        deleted_results.rows[j][1] = y /\ deleted_results.rows[j][2] = m}
         IN  IF hits = {} THEN 0
             ELSE deleted_results.rows[CHOOSE j \in hits : TRUE][3]

\* gross minus deleted-in-month of the j-th ingest row; no deletions when ingest_only
NetOfRow(j) ==
    results[j].total_data_bytes
      - (IF ingest_only THEN 0
         ELSE DeletedInMonth(results[j].reporting_year, results[j].reporting_month))

RECURSIVE RunningNet(_)
RunningNet(n) == IF n = 0 THEN 0 ELSE RunningNet(n - 1) + NetOfRow(n)

\* C1: with ingest_only false, every processed ingest row M has
\* net_volume(M) = gross_volume(M) - deleted_in_month(M), and the cumulative
\* volume after M is the cumulative volume after the previous row plus
\* net_volume(M); before the first row the cumulative volume is 0.
C1_NetAndCumulative ==
    [][ /\ (vpc = "loop" /\ row_idx = 0) => cumulative_volume_bytes = 0
        /\ (RowProcessed /\ ~ingest_only) =>
              LET row == results[row_idx + 1]
                  del == DeletedInMonth(row.reporting_year, row.reporting_month)
              IN  /\ this_deleted_bytes' = del
                  /\ volume_bytes' = row.total_data_bytes - del
                  /\ cumulative_volume_bytes' = cumulative_volume_bytes + volume_bytes'
      ]_vars

\* a second row was processed, with deletions in its month, after a first one
\* had left a cumulative volume
C1_Witness ==
    /\ vpc = "loop" /\ ~ingest_only /\ row_idx = 2
    /\ this_deleted_bytes > 0
    /\ cumulative_volume_bytes # volume_bytes

\* C2 (as claimed): with ingest_only false, once all rows are processed the
\* cumulative volume is the sum of the gross bytes of all ingest rows minus the
\* sum of all the per-month totals the deletion query returned, also those of
\* a month without an ingest row.
RECURSIVE SumGrossRows(_)
SumGrossRows(n) ==
    IF n = 0 THEN 0 ELSE SumGrossRows(n - 1) + results[n].total_data_bytes

RECURSIVE SumDeletedRows(_)
SumDeletedRows(n) ==
    IF n = 0 THEN 0 ELSE SumDeletedRows(n - 1) + deleted_results.rows[n][3]

C2_AllDeletionsSubtracted ==
    (vpc = "plotted" /\ ~ingest_only /\ ~deleted_results.is_none) =>
        cumulative_volume_bytes =
            SumGrossRows(Len(results)) - SumDeletedRows(Len(deleted_results.rows))

\* The scenario of C3 is ScenarioObs with ScenarioDel.

InScenario ==
    /\ ~ingest_only
    /\ vpc \in {"loop", "plotted"}
    /\ results = IngestQuery(ScenarioObs)
    /\ deleted_results = Rows(DeletedQuery(ScenarioDel))

TB(tenths) == [num |-> tenths, den |-> 10]

\* C3 (as claimed): in the scenario January has volume 1.5 TB and cumulative
\* 1.5 TB, February has net volume -0.6 TB and cumulative 0.9 TB.
C3_ScenarioAsClaimed ==
    InScenario =>
        /\ row_idx = 1 =>
              /\ RatEq(bytes_to_terabytes(PyInt(volume_bytes)), TB(15))
              /\ RatEq(bytes_to_terabytes(PyInt(cumulative_volume_bytes)), TB(15))
        /\ row_idx = 2 =>
              /\ RatEq(bytes_to_terabytes(PyInt(volume_bytes)), TB(-6))
              /\ RatEq(bytes_to_terabytes(PyInt(cumulative_volume_bytes)), TB(9))

\* C3 (amended): in the scenario January has volume 1.5 TB and cumulative
\* 1.5 TB; February's gross volume is the 0.6 TB of its observation, its net
\* volume is 0 and the cumulative volume stays 1.5 TB.
C3_ScenarioAmended ==
    InScenario =>
        /\ results[1] = [reporting_year |-> 2022, reporting_month |-> 1,
                         total_data_bytes |-> 15]
        /\ results[2] = [reporting_year |-> 2022, reporting_month |-> 2,
                         total_data_bytes |-> 6]
        /\ row_idx = 1 =>
              /\ RatEq(bytes_to_terabytes(PyInt(volume_bytes)), TB(15))
              /\ RatEq(bytes_to_terabytes(PyInt(cumulative_volume_bytes)), TB(15))
        /\ row_idx = 2 =>
              /\ this_deleted_bytes = 6
              /\ RatEq(bytes_to_terabytes(PyInt(volume_bytes)), TB(0))
              /\ RatEq(bytes_to_terabytes(PyInt(cumulative_volume_bytes)), TB(15))
              /\ (vpc = "plotted" /\ cumulative /\ stride_months = 1) =>
                    /\ x_axis = << <<2022, 1>>, <<2022, 2>> >>
                    /\ Len(y_axis) = 2
                    /\ RatEq(y_axis[1], TB(15)) /\ RatEq(y_axis[2], TB(15))

\* the scenario ran to the plot, every month plotted cumulatively
C3_Witness ==
    InScenario /\ vpc = "plotted" /\ row_idx = 2 /\ cumulative /\ stride_months = 1

\* C4: from one processed month to the next the cumulative volume does not
\* decrease when the month's net volume is >= 0; it decreases exactly at a
\* month whose deletions exceed its gross ingest, and then by deleted - gross.
C4_MonotoneUnlessDeletionsExceed ==
    [][ RowProcessed =>
          LET row == results[row_idx + 1]
              gross == row.total_data_bytes
              del == IF ingest_only THEN 0
                     ELSE DeletedInMonth(row.reporting_year, row.reporting_month)
          IN  /\ gross - del >= 0 => cumulative_volume_bytes' >= cumulative_volume_bytes
              /\ cumulative_volume_bytes' < cumulative_volume_bytes <=> del > gross
              /\ del > gross =>
                    cumulative_volume_bytes - cumulative_volume_bytes' = del - gross
      ]_vars

\* a month dipped below a positive cumulative volume
C4_Witness ==
    /\ vpc = "loop" /\ row_idx >= 2
    /\ volume_bytes < 0
    /\ cumulative_volume_bytes > 0

\* C5 (as claimed): the stride is 3 months exactly when the range is at least
\* 186 days, and 1 month otherwise.
C5_StrideAtLeast186 ==
    vpc # "start" => (stride_months = 3 <=> days >= 186) /\ stride_months \in {1, 3}

\* C5 (amended): the stride is 3 months exactly when the range is more than
\* 186 days, and 1 month otherwise (a range of exactly 186 days has stride 1).
C5_StrideAbove186 ==
    vpc # "start" => (stride_months = 3 <=> days > 186) /\ stride_months \in {1, 3}

\* the boundary: a range of exactly 186 days got its stride
C5_Witness == vpc = "loop" /\ days = 186 /\ stride_months = 1

\* C6: a row is emitted iff month % stride = 0 (every month for stride 1, only
\* months 3, 6, 9, 12 for stride 3); the emitted value is, in cumulative mode,
\* the running sum of the net volume of all processed rows up to this one
\* (skipped rows included) and otherwise this row's own net volume.
C6_StrideOnlyFilters ==
    [][ RowProcessed =>
          LET row == results[row_idx + 1]
              emit == IF stride_months = 1 THEN TRUE
                      ELSE row.reporting_month \in {3, 6, 9, 12}
          IN  /\ stride_months \in {1, 3}
              /\ ~emit => x_axis' = x_axis /\ y_axis' = y_axis
              /\ emit =>
                    /\ x_axis' = Append(x_axis, <<row.reporting_year, row.reporting_month>>)
                    /\ Len(y_axis') = Len(y_axis) + 1
                    /\ SubSeq(y_axis', 1, Len(y_axis)) = y_axis
                    /\ RatEq(y_axis'[Len(y_axis')],
                             bytes_to_terabytes(PyInt(
                                 IF cumulative THEN RunningNet(row_idx + 1)
                                 ELSE NetOfRow(row_idx + 1))))
      ]_vars

\* with stride 3 a month was emitted after an earlier month was skipped, and
\* the skipped month's volume is part of what was processed
C6_Witness ==
    /\ vpc = "loop" /\ stride_months = 3 /\ cumulative
    /\ row_idx >= 2 /\ Len(x_axis) = 1 /\ x_axis[1] # <<results[1].reporting_year, results[1].reporting_month>>
    /\ results[1].total_data_bytes > 0

(***************************************************************************)
(* Properties of the collector.                                            *)
(***************************************************************************)
\* pat occurs in name at some position
HasSubstring(name, pat) ==
    \E i \in 1..(Len(name) - Len(pat) + 1) : SubSeq(name, i, i + Len(pat) - 1) = pat

DmfPatterns == {mwa01fs, mwa02fs, mwa03fs, mwa04fs, volt01fs}

\* the tier the ordered rules give a name
TierOf(name) ==
    IF \E pat \in DmfPatterns : HasSubstring(name, pat) THEN "DMF"
    ELSE IF HasSubstring(name, mwaingest) THEN "Banksia"
    ELSE "Skipped"

Listed(name, list) == \E i \in 1..Len(list) : list[i] = name

RECURSIVE SizeOfTier(_, _)
\* the sum, over the first n listed buckets that the rules put in a tier of
\* tiers, of the size mc answered for the bucket
SizeOfTier(tiers, n) ==
    IF n = 0 THEN 0
    ELSE SizeOfTier(tiers, n - 1)
         + (IF TierOf(bucket_list[n]) \in tiers THEN mc_reply[n].answer.size ELSE 0)

\* C7: get_banksia_usage returns, for DMF and for Banksia, exactly the sum of
\* the sizes of the buckets classified into the tier, each bucket counted once
\* in one tier and an unclassified bucket in none; get_acacia_usage returns
\* the sum over all listed buckets.
C7_TierTotalsAreExactSums ==
    cpc = "returned" =>
        /\ collector = "banksia" =>
              /\ ret = <<SizeOfTier({"DMF"}, Len(bucket_list)),
                         SizeOfTier({"Banksia"}, Len(bucket_list))>>
              /\ \A n \in 1..Len(bucket_list) :
                    mc_reply[n].asked <=> TierOf(bucket_list[n]) # "Skipped"
        /\ collector = "acacia" =>
              /\ ret = <<SizeOfTier({"DMF", "Banksia", "Skipped"}, Len(bucket_list))>>
              /\ \A n \in 1..Len(bucket_list) : mc_reply[n].asked

\* get_banksia_usage returned with a bucket in each tier and one left out
C7_Witness ==
    /\ cpc = "returned" /\ collector = "banksia"
    /\ dmf_buckets # <<>> /\ banksia_buckets # <<>> /\ skipped # <<>>
    /\ ret[1] > 0 /\ ret[2] > 0

\* C8: every bucket name gets exactly one outcome by the ordered rules: DMF if
\* it contains one of mwa01fs, mwa02fs, mwa03fs, mwa04fs, volt01fs (also when
\* it contains mwaingest), else Banksia if it contains mwaingest, else it is
\* logged as skipped; [mwa01fs, mwaingest-2, random-bucket] are classified
\* DMF, Banksia, unclassified.
C8_OrderedFirstMatch ==
    (collector = "banksia" /\ cpc \notin {"idle", "start"}) =>
        /\ \A n \in 1..Len(bucket_list) :
              LET name == bucket_list[n]
              IN  /\ Listed(name, dmf_buckets) <=> TierOf(name) = "DMF"
                  /\ Listed(name, banksia_buckets) <=> TierOf(name) = "Banksia"
                  /\ Listed(name, skipped) <=> TierOf(name) = "Skipped"
        /\ Len(dmf_buckets) + Len(banksia_buckets) + Len(skipped) = Len(bucket_list)
        /\ bucket_list = <<BucketUniverse[1], BucketUniverse[2], BucketUniverse[3]>> =>
              /\ dmf_buckets = <<mwa01fs>>
              /\ banksia_buckets = <<BucketUniverse[2]>>
              /\ skipped = <<BucketUniverse[3]>>

\* a name holding both a DMF pattern and mwaingest was classified
C8_Witness ==
    /\ collector = "banksia" /\ cpc = "banksia_pool"
    /\ \E n \in 1..Len(bucket_list) :
          /\ HasSubstring(bucket_list[n], mwaingest)
          /\ HasSubstring(bucket_list[n], mwa03fs)
          /\ Listed(bucket_list[n], dmf_buckets)

\* C9 (as claimed): a per-bucket query aborts the run, and the collector
\* returns no total, whenever mc reports a non-success status, the subprocess
\* fails or the output cannot be parsed; a size is returned only for an answer
\* whose status is success.
C9_FailsOnNonSuccess ==
    /\ \A i \in 1..Len(pool_results) :
          pool_results[i].state = "returned" =>
              LET a == mc_reply[IndexOf(pool_values[i], bucket_list)].answer
              IN  a.rc = 0 /\ a.json_ok /\ a.has_size /\ a.status = "success"
    /\ cpc = "returned" =>
          \A n \in 1..Len(bucket_list) :
              mc_reply[n].asked =>
                  LET a == mc_reply[n].answer
                  IN  a.rc = 0 /\ a.json_ok /\ a.has_size /\ a.status = "success"

\* the tasks of the running pool that have not finished
PendingTasks == {i \in 1..Len(pool_results) : pool_results[i] = Pending}

RECURSIVE SizeOfPool(_)
\* the sum of the sizes mc answered for the first n buckets of the running pool
SizeOfPool(n) ==
    IF n = 0 THEN 0
    ELSE SizeOfPool(n - 1)
         + mc_reply[IndexOf(pool_values[n], bucket_list)].answer.size

\* C10: the results of a pool are summed only once every task of the pool has
\* finished; a task writes its own result and nothing else; and the total a
\* pool adds is the sum of the sizes mc answered for the pool's buckets,
\* whatever the order in which the tasks finished.
C10_BarrierThenSum ==
    [][ /\ (cpc \in {"acacia_pool", "banksia_pool", "dmf_pool"} /\ cpc' # cpc) =>
              /\ PendingTasks = {}
              /\ cpc' # "aborted" =>
                    (total_size' + banksia_total_size' + dmf_total_size')
                      - (total_size + banksia_total_size + dmf_total_size)
                    = SizeOfPool(Len(pool_values))
        /\ (cpc' = cpc) =>
              /\ <<total_size', banksia_total_size', dmf_total_size', ret'>>
                    = <<total_size, banksia_total_size, dmf_total_size, ret>>
              /\ \E i \in PendingTasks :
                    /\ pool_results'[i] # Pending
                    /\ \A j \in 1..Len(pool_results) \ {i} :
                          pool_results'[j] = pool_results[j]
      ]_vars

\* both pools of get_banksia_usage were summed after tasks finished out of order
C10_Witness ==
    /\ cpc = "returned" /\ collector = "banksia" /\ out_of_order
    /\ Len(dmf_buckets) >= 2 /\ banksia_buckets # <<>>

(***************************************************************************)
(* Properties of the database functions.                                   *)
(***************************************************************************)
\* the call of get_location_summary_bytes has ended, one way or another
LocationEnded ==
    query_fn = "location" /\ qpc \in {"returned", "exited", "unhandled"}

\* the query of that call gave a result set
LocationFetched == LocationEnded /\ ~db_results.is_none

\* the numbers of tier rows each source file expects
ExpectedRowCounts == IF variant = "current" THEN {3, 4} ELSE {3}

\* C11: whenever the result set of the reconciliation query does not hold the
\* expected number of tier rows (3 or 4 in src/src/stats.py, exactly 3 in
\* src/stats.py), get_location_summary_bytes ends the process with a non-zero
\* exit status and returns no totals.
C11_WrongRowCountExits ==
    (LocationFetched /\ Len(db_results.rows) \notin ExpectedRowCounts)
        => (qpc = "exited" /\ exit_status # 0 /\ tier_totals = <<>>)

\* a result set of two tier rows ended the process
C11_Witness ==
    LocationFetched /\ Len(db_results.rows) = 2 /\ qpc = "exited"

\* the tier labels each source file knows
KnownTiers ==
    IF variant = "current" THEN {"DMF", "Banksia", "Acacia_mwaingest", "Acacia_mwa"}
    ELSE {"DMF", "Banksia", "Acacia"}

\* row k of the result set carries NULL or a label that is no known tier
ForeignLabel(k) ==
    db_results.rows[k][1].is_null \/ db_results.rows[k][1].text \notin KnownTiers

\* the result set has an expected number of rows
SizeAccepted == LocationFetched /\ Len(db_results.rows) \in ExpectedRowCounts

\* C12: if any row of a result set of accepted size carries a tier label
\* outside the known set (DMF, Banksia, Acacia_mwaingest, Acacia_mwa in
\* src/src/stats.py; DMF, Banksia, Acacia in src/stats.py), a NULL label
\* included, get_location_summary_bytes ends the process with a non-zero exit
\* status.
C12_UnknownLabelExits ==
    (SizeAccepted /\ \E k \in 1..Len(db_results.rows) : ForeignLabel(k))
        => (qpc = "exited" /\ exit_status # 0 /\ tier_totals = <<>>)

\* a result set of accepted size whose last row has a NULL label, after known
\* tiers, ended the process
C12_Witness ==
    /\ SizeAccepted /\ qpc = "exited"
    /\ db_results.rows[Len(db_results.rows)][1].is_null
    /\ ~db_results.rows[1][1].is_null

\* the size of the row labelled tier, 0 if the result set has no such row
RowSizeOf(tier) ==
    LET hits == {k \in 1..Len(db_results.rows) :
                    ~db_results.rows[k][1].is_null /\ db_results.rows[k][1].text = tier}
    IN  IF hits = {} THEN 0 ELSE db_results.rows[CHOOSE k \in hits : TRUE][2]

\* C13: whenever get_location_summary_bytes of src/src/stats.py accepts a
\* result set (allowed row count, only known labels), it returns a defined
\* byte total for every tier (DMF, Acacia_mwaingest, Acacia_mwa, Banksia), each
\* equal to the summed size of that tier's row, with 0 for a tier without a row.
C13_AcceptedSetReturnsEveryTier ==
    (variant = "current" /\ SizeAccepted
        /\ \A k \in 1..Len(db_results.rows) : ~ForeignLabel(k))
        => /\ qpc = "returned"
           /\ tier_totals = << RowSizeOf("DMF"), RowSizeOf("Acacia_mwaingest"),
                               RowSizeOf("Acacia_mwa"), RowSizeOf("Banksia") >>

\* C14: every database query function returns its connection to the pool on
\* every exit path, also when the query raises: outside a running query no
\* connection is checked out, and never more than one is (the pool holds 2).
C14_ConnectionsReturned ==
    /\ checked_out <= 1
    /\ checked_out < maxconn
    /\ qpc \notin {"execute", "finally"} => checked_out = 0

\* the second query of a run raised while it held a connection, and the finally
\* clause has run
C14_Witness ==
    /\ qpc = "after" /\ queries_done = 2 /\ conn /\ error_logged
    /\ checked_out = 0

\* C15: when a database query raises, the error is logged, the connection is
\* returned, and the function then either returns to its caller or stops the
\* process through the declared fatal path (exit with a non-zero status): it
\* never ends any other way, such as with an unhandled exception raised while
\* processing the missing result.
C15_FailedQueryHandled ==
    (error_logged /\ qpc \in {"returned", "exited", "unhandled"})
        => /\ checked_out = 0
           /\ qpc = "returned" \/ (qpc = "exited" /\ exit_status # 0)

(***************************************************************************)
(* Properties of the dumps.                                                *)
(***************************************************************************)
\* a numeric field (total time, archived bytes, deleted bytes) of row k is None
NoneField(k) ==
    IF dump_fn = "dump_stats"
    THEN dump_rows[k].total_time_secs.is_none
            \/ dump_rows[k].total_archived_bytes.is_none
            \/ dump_rows[k].deleted_bytes.is_none
    ELSE dump_rows[k].month_secs.is_none \/ dump_rows[k].month_bytes.is_none

\* C16: a None numeric field (total time, archived bytes, deleted bytes) in a
\* row of the overall or the monthly dump is treated as zero and the run
\* continues: dump_stats and dump_monthly_stats write a CSV row for that row
\* and go on.
C16_NoneFieldRowWritten ==
    (dump_pc \in {"loop", "done", "crashed"} /\ dump_i >= 1 /\ NoneField(dump_i))
        => (dump_pc # "crashed" /\ Len(csv_rows) = dump_i)

(***************************************************************************)
(* Properties of get_duty_cycle and get_available_hours.                   *)
(***************************************************************************)
\* get_duty_cycle has returned
DutyReturned == calc_fn = "get_duty_cycle" /\ calc_pc = "returned"

\* a <= b for floats with positive denominators
FloatLeq(a, b) == a.num * b.den <= b.num * a.den

\* C17: get_duty_cycle(hours, available_hours) returns hours / available_hours,
\* a value in [0, 1], whenever 0 <= hours <= available_hours and
\* available_hours > 0, and returns exactly 0 whenever available_hours <= 0.
C17_DutyCycleInUnitRange ==
    DutyReturned =>
        LET h == calc_args.hours
            a == calc_args.available_hours
        IN  /\ (a.num > 0 /\ h.num >= 0 /\ FloatLeq(h, a)) =>
                  /\ calc_result.den > 0
                  /\ calc_result.num * a.num * h.den = h.num * calc_result.den * a.den
                  /\ calc_result.num >= 0
                  /\ calc_result.num <= calc_result.den
            /\ a.num <= 0 => (calc_result.num = 0 /\ calc_result.den # 0)

\* half an hour observed in a month of 744 hours gave 1/1488
C17_Witness ==
    /\ DutyReturned
    /\ calc_args.hours = [num |-> 1, den |-> 2]
    /\ calc_args.available_hours = [num |-> 744, den |-> 1]
    /\ calc_result = [num |-> 1, den |-> 1488]

\* the calendar, from the rule of the leap years
LeapYear(y) == (y % 4 = 0 /\ y % 100 # 0) \/ y % 400 = 0
DaysInMonth(y, m) ==
    IF m = 2 THEN (IF LeapYear(y) THEN 29 ELSE 28)
    ELSE IF m \in {4, 6, 9, 11} THEN 30 ELSE 31

\* get_available_hours has been applied
HoursCalled == calc_fn = "get_available_hours" /\ calc_pc # "call"

\* the call returned days_in_month x 24, a positive number
ReturnedHoursOfMonth ==
    /\ calc_pc = "returned"
    /\ calc_result = [num |-> DaysInMonth(calc_args.year, calc_args.month) * 24, den |-> 1]
    /\ calc_result.num > 0

\* C18 as stated: for every year and every month in 1..12,
\* get_available_hours(year, month) equals days_in_month x 24, December
\* (roll-over to January of the next year) and February in leap and non-leap
\* years included; the available hours are always positive.
C18_HoursOfEveryMonth == HoursCalled => ReturnedHoursOfMonth

\* C18, amended: the same for every month of the years 1..9998 and for January
\* to November of the year 9999; for December 9999 the roll-over leaves the
\* range of datetime and get_available_hours raises ValueError.
C18_HoursOfEveryMonthInRange ==
    HoursCalled =>
        IF calc_args.year = 9999 /\ calc_args.month = 12
        THEN calc_pc = "raised"
        ELSE ReturnedHoursOfMonth

\* December 2023 rolled over to January 2024 and gave 31 x 24 = 744 hours
C18_Witness ==
    /\ HoursCalled /\ calc_pc = "returned"
    /\ calc_args = [year |-> 2023, month |-> 12]
    /\ calc_result = [num |-> 744, den |-> 1]

(***************************************************************************)
(* Properties of the per-project pie charts.                               *)
(***************************************************************************)
\* the volume chart, and either chart, has been drawn
VolumePlotted == pie_fn = "volume" /\ pie_pc = "plotted"
PiePlotted == pie_pc = "plotted"

\* the smaller of two numbers
Min(a, b) == IF a <= b THEN a ELSE b

\* a + b for floats, in lowest terms
FloatAdd(a, b) == Float(a.num * b.den + b.num * a.den, a.den * b.den)

RECURSIVE FloatSum(_)
FloatSum(s) ==
    IF s = <<>> THEN [num |-> 0, den |-> 1] ELSE FloatAdd(s[1], FloatSum(Tail(s)))

\* the cap of each chart: 11 named slices of volume, 8 of telescope time
CapOf(fn) == IF fn = "volume" THEN 11 ELSE 8

\* C19: for any list of per-project byte totals in descending order, the
\* volume chart (cap 11) emits the first min(n, cap) projects as named slices
\* in order, never more named slices than the cap, merges all remaining
\* projects into a single Other slice, and the emitted slice values, Other
\* included, sum to the sum over all projects.
C19_TopProjectsAndOther ==
    VolumePlotted =>
        LET n == Len(pie_rows)
            named == Min(n, CapOf("volume"))
        IN  /\ Len(labels) = named + 1 /\ Len(x_values) = named + 1
            /\ named <= CapOf("volume")
            /\ \A k \in 1..named :
                  /\ labels[k] = [other |-> FALSE, project |-> k]
                  /\ RatEq(x_values[k], [num |-> pie_rows[k], den |-> UnitsPerTB])
            /\ labels[named + 1].other
            /\ RatEq(x_values[named + 1],
                     [num |-> SumSeq(SubSeq(pie_rows, named + 1, n)), den |-> UnitsPerTB])
            /\ RatEq(FloatSum(x_values), [num |-> SumSeq(pie_rows), den |-> UnitsPerTB])

\* twelve projects, the twelfth with bytes: eleven named slices and Other
C19_Witness ==
    /\ VolumePlotted /\ Len(pie_rows) = 12 /\ pie_rows[12] > 0
    /\ Len(labels) = 12 /\ other = pie_rows[12]

\* what project k counts for: its bytes, or its whole hours in the time chart
CountedAmount(k) ==
    IF pie_fn = "volume" THEN pie_rows[k] ELSE pie_rows[k] \div 3600

\* the value of the slice "Other"
OtherValue == x_values[Len(x_values)]

\* C20 as stated: the Other slice is omitted or zero only when the number of
\* projects is at most the cap; whenever more projects than the cap are
\* returned, the emitted Other slice is strictly positive.
C20_OtherPositiveBeyondCap ==
    (PiePlotted /\ Len(pie_rows) > CapOf(pie_fn))
        => (labels[Len(labels)].other /\ OtherValue.num > 0)

\* C20, amended: a slice Other is always emitted, last; it holds the sum of
\* what the projects beyond the cap count for (their bytes in the volume chart,
\* their whole hours in the time chart), which is 0 when there are at most cap
\* projects and, with more projects than the cap, is strictly positive exactly
\* when one of the projects beyond the cap counts for more than 0.
C20_OtherIsSumBeyondCap ==
    PiePlotted =>
        LET beyond == (CapOf(pie_fn) + 1)..Len(pie_rows)
        IN  /\ labels[Len(labels)].other
            /\ OtherValue.den > 0
            /\ Len(pie_rows) <= CapOf(pie_fn) => OtherValue.num = 0
            /\ OtherValue.num > 0 <=> \E k \in beyond : CountedAmount(k) > 0
            /\ OtherValue.num >= 0

\* more projects than the cap, the ones beyond it with less than an hour each
\* though not with nothing: the slice Other is emitted with 0
C20_Witness ==
    /\ PiePlotted /\ pie_fn = "time" /\ Len(pie_rows) > CapOf(pie_fn)
    /\ pie_rows[Len(pie_rows)] > 0
    /\ labels[Len(labels)].other /\ OtherValue.num = 0

\* C21: in the telescope time chart (cap 8) the emitted slice values, named
\* slices plus Other, sum to the true total of the per-project hours the query
\* returned, whatever (possibly fractional) hours the projects have.
C21_TimeSlicesSumToTotal ==
    (PiePlotted /\ pie_fn = "time")
        => RatEq(FloatSum(x_values), [num |-> SumSeq(pie_rows), den |-> 3600])

(***************************************************************************)
(* Properties of the mc profiles of get_banksia_usage.                     *)
(***************************************************************************)
ProfilePrefix == <<"h", "t", "t", "p", "s", ":", "/", "/", "v", "s", "s", "-">>
Digits == {"0", "1", "2", "3", "4", "5", "6", "7", "8", "9"}

\* a URL of the form https://vss-N.<host> with a single digit N
IsVssUrl(url) ==
    /\ Len(url) > Len(ProfilePrefix) + 2
    /\ SubSeq(url, 1, Len(ProfilePrefix)) = ProfilePrefix
    /\ url[Len(ProfilePrefix) + 1] \in Digits
    /\ url[Len(ProfilePrefix) + 2] = "."

\* the profile that belongs to such a URL: "banksia" followed by its N
ProfileOfUrl(url) ==
    <<"b", "a", "n", "k", "s", "i", "a", url[Len(ProfilePrefix) + 1]>>

VssProfiles == profile_fn = "randomise_banksia_vss_profile"

\* C22: when every configured endpoint URL has the form https://vss-N.<host>,
\* no draw of a profile fails, every profile in dmf_values and banksia_values
\* is "banksia" + N of a URL that is in the configured list, and with a single
\* configured endpoint it is that endpoint's profile.
C22_ProfileOfConfiguredEndpoint ==
    (VssProfiles /\ \A k \in 1..Len(endpoint_urls) : IsVssUrl(endpoint_urls[k]))
        => /\ prof_pc # "raised"
           /\ \A j \in 1..Len(mc_profiles) :
                 \E k \in 1..Len(endpoint_urls) :
                    mc_profiles[j] = ProfileOfUrl(endpoint_urls[k])
           /\ Len(endpoint_urls) = 1
                 => \A j \in 1..Len(mc_profiles) :
                       mc_profiles[j] = ProfileOfUrl(endpoint_urls[1])

\* two endpoints, three buckets, and both endpoints' profiles were drawn
C22_Witness ==
    /\ VssProfiles /\ prof_pc = "built"
    /\ endpoint_urls = <<vss1_url, vss6_url>>
    /\ mc_profiles = <<ProfileOfUrl(vss6_url), ProfileOfUrl(vss1_url),
                       ProfileOfUrl(vss6_url)>>

\* the digit characters of the VSS numbers 1..6
VssDigit(vss) == <<"1", "2", "3", "4", "5", "6">>[vss]

\* a profile with each $ replaced by the VSS number
RECURSIVE ReplaceDollar(_, _)
ReplaceDollar(text, vss) ==
    IF text = <<>> THEN <<>>
    ELSE <<IF Head(text) = "$" THEN VssDigit(vss) ELSE Head(text)>>
            \o ReplaceDollar(Tail(text), vss)

\* C30: in src/stats.py every profile drawn by randomise_banksia_profile is the
\* profile argument with each $ replaced by a VSS number in 1..6 (unchanged
\* when it has no $), and drawing the profiles never stops get_banksia_usage.
C30_DollarReplacedAndCompletes ==
    (profile_fn = "randomise_banksia_profile")
        => /\ prof_pc # "raised"
           /\ \A j \in 1..Len(mc_profiles) :
                 \E vss \in 1..6 :
                    mc_profiles[j] = ReplaceDollar(banksia_profile, vss)

(***************************************************************************)
(* Properties of the order of the bucket-size queries.                     *)
(***************************************************************************)
\* the positions in bucket_list of the buckets run_mc_du was run on
AskedBuckets == {k \in 1..Len(bucket_list) : mc_reply[k].asked}

\* the positions of the buckets of a tier of get_banksia_usage
TierBuckets(tier) == {k \in 1..Len(bucket_list) : Classify(bucket_list[k]) = tier}

\* the buckets an invocation has to query: all of them in get_acacia_usage,
\* the classified ones in get_banksia_usage
BucketsToQuery ==
    IF collector = "acacia" THEN 1..Len(bucket_list)
    ELSE TierBuckets("DMF") \cup TierBuckets("Banksia")

\* the query of bucket k has ended with a size
Answered(k) == mc_reply[k].asked /\ run_mc_du(mc_reply[k].answer).state = "returned"

QueryOrder ==
    /\ AskedBuckets \subseteq BucketsToQuery
    /\ cpc = "returned" => AskedBuckets = BucketsToQuery
    /\ (collector = "banksia" /\ AskedBuckets \cap TierBuckets("DMF") # {})
          => \A k \in TierBuckets("Banksia") : Answered(k)

\* a step of a pool runs exactly one task that has not run, on a bucket that
\* has not been queried; and a bucket that was queried is not queried again
QueriedOnce ==
    /\ \A k \in AskedBuckets : mc_reply'[k] = mc_reply[k]
    /\ (cpc' = cpc /\ pool_results' # pool_results)
          => \E i \in 1..Len(pool_results) :
                /\ pool_results[i] = Pending /\ pool_results'[i] # Pending
                /\ \A j \in (1..Len(pool_results)) \ {i} :
                      pool_results'[j] = pool_results[j]
                /\ LET k == IndexOf(pool_values[i], bucket_list)
                   IN  /\ k \notin AskedBuckets
                       /\ mc_reply'[k].asked
                       /\ \A l \in (1..Len(bucket_list)) \ {k} :
                             mc_reply'[l] = mc_reply[l]
    /\ pool_results' = pool_results => mc_reply' = mc_reply

\* C26: within one invocation of a collector only the buckets to be queried are
\* queried (in get_banksia_usage never an unclassified one), each at most once
\* and, when the collector returns, exactly once; in get_banksia_usage a query
\* of a DMF bucket starts only after every Banksia query has ended with a size,
\* so after a failure in the Banksia pool no DMF bucket is ever queried.
C26_EachBucketOnceBanksiaFirst == [](QueryOrder) /\ [][QueriedOnce]_vars

\* get_banksia_usage returned after it queried a Banksia and a DMF bucket and
\* left an unclassified bucket alone
C26_Witness ==
    /\ collector = "banksia" /\ cpc = "returned"
    /\ TierBuckets("DMF") # {} /\ TierBuckets("Banksia") # {}
    /\ TierBuckets("Skipped") # {}
    /\ AskedBuckets = TierBuckets("DMF") \cup TierBuckets("Banksia")

\* the Banksia pool failed: get_banksia_usage ended and no DMF bucket was queried
C26_FailureReached ==
    /\ collector = "banksia" /\ cpc = "aborted"
    /\ \E k \in TierBuckets("Banksia") : mc_reply[k].asked /\ ~Answered(k)
    /\ TierBuckets("DMF") # {} /\ AskedBuckets \cap TierBuckets("DMF") = {}

(***************************************************************************)
(* Properties of the debug dump for the quarterly report.                  *)
(***************************************************************************)
\* months counted on one scale, so that (year, month) pairs compare as dates
MonthNumber(y, m) == y * 12 + m

\* the (year, month) of the row lies within [special_date_from, special_date_to]
InSpecialWindow(row, w) ==
    /\ MonthNumber(w.dump_year_from, w.dump_month_from) <= MonthNumber(row.year, row.month)
    /\ MonthNumber(row.year, row.month) <= MonthNumber(w.dump_year_to, w.dump_month_to)

RECURSIVE RowsToDump(_)
\* the rows of a call, in order, the dump is claimed for
RowsToDump(rows) ==
    IF rows = <<>> THEN <<>>
    ELSE (IF /\ ~win_ingest_only /\ win_days > 186
             /\ InSpecialWindow(rows[1], dump_window)
          THEN <<rows[1]>> ELSE <<>>) \o RowsToDump(Tail(rows))

\* C28: the debug dump is logged for exactly the month rows whose (year, month)
\* lies within [special_date_from, special_date_to], whatever the window, and
\* only in calls with ingest_only false and a date range above 186 days; in
\* ingest_only calls the None bounds are never compared with a row.
C28_DumpedExactlyWindowRows ==
    /\ win_pc # "raised"
    /\ win_pc = "done" => dumped = RowsToDump(win_rows)

(***************************************************************************)
(* Properties of the order of the phases of run_stats.                     *)
(***************************************************************************)
\* the files of the run in the order the claim gives: the CSV dumps, then the charts
Outputs == DumpFiles \o ChartFiles

\* the phase that follows the phases entered so far in the fixed order
PhaseDue == IF Len(run_log) = Len(Phases) THEN "done" ELSE Phases[Len(run_log) + 1]

\* the totals of the collectors differ from the totals of the database
TotalsMismatch == db_bytes # <<>> /\ <<s3_bytes[3], s3_bytes[1], s3_bytes[2], s3_bytes[4]>> # db_bytes

\* C27: run_stats enters its phases in the fixed order collection, database
\* reconciliation, CSV dumps (stats.csv, stats_by_month.csv,
\* stats_by_project.csv), charts; a collector or the reconciliation that ends
\* fatally leaves no CSV file and no chart; and as long as no phase has failed
\* the next phase is the one due in that order, whatever the totals are, so a
\* mismatch between the collected and the database totals changes nothing.
C27_PhasesInOrder ==
    /\ IsPrefix(run_log, Phases)
    /\ IsPrefix(written, Outputs)
    /\ written # <<>> => ReconcilePhase \in Range(run_log)
    /\ failed_at \in Range(CollectorPhases) \cup {ReconcilePhase} => written = <<>>
    /\ failed_at = "" => run_pc = PhaseDue
    /\ run_pc = "done" => written = Outputs

\* a run whose collected totals differ from the database totals wrote every
\* CSV file and every chart
C27_Witness ==
    /\ run_pc = "done" /\ TotalsMismatch
    /\ use_s3 = <<TRUE, TRUE, TRUE>>
    /\ written = Outputs

\* the banksia collector failed after the two acacia collectors had returned
C27_CollectorFailed ==
    /\ run_pc = "failed" /\ failed_at = "use_banksia"
    /\ written = <<>>

(***************************************************************************)
(* Properties of the cumulative fraction and of the category totals.       *)
(***************************************************************************)
\* the index into cat_lookup a description is mapped to, -1 when it is no key
CategoryOf(desc) ==
    IF \E k \in 1..Len(cats) : cats[k][1] = desc
    THEN cats[CHOOSE k \in 1..Len(cats) : cats[k][1] = desc][2]
    ELSE -1

RECURSIVE VolumeOfCategory(_, _)
\* the sum of the volumes of the rows whose description is mapped to category c
VolumeOfCategory(rows, c) ==
    IF rows = <<>> THEN 0
    ELSE (IF CategoryOf(rows[1].desc) = c THEN rows[1].vol ELSE 0)
         + VolumeOfCategory(Tail(rows), c)

RECURSIVE VolumeOfRows(_)
VolumeOfRows(rows) ==
    IF rows = <<>> THEN 0 ELSE rows[1].vol + VolumeOfRows(Tail(rows))

\* the script is past the loop over the categories, one way or another
CategoriesEnded ==
    sci_pc \in {"done", "raised"} /\ sci_data # <<>>

\* C25: for every CSV file, also one with fewer projects than cats has keys,
\* each category total is the sum of the volumes of exactly the projects whose
\* description is a key of cats mapped to that category; a project without
\* such a description adds to no total, so the totals sum to at most the
\* volume of the archive.
C25_CategoryTotalsByDescription ==
    CategoriesEnded
        => /\ sci_pc = "done"
           /\ \A c \in 1..Len(cat_lookup) :
                 cat_totals[c] = VolumeOfCategory(sci_data, c - 1)
           /\ SumSeq(cat_totals) <= VolumeOfRows(sci_data)

\* with as many projects as keys the loop ends, and no description is a key,
\* yet the whole archive is counted into the categories
C25_UnlistedCounted ==
    /\ sci_pc = "done" /\ sci_data = CsvAllUnlisted
    /\ SumSeq(cat_totals) = VolumeOfRows(sci_data)

(***************************************************************************)
(* Properties of parse_mwadmget_log.                                       *)
(***************************************************************************)
\* the value of a line: what stands between the token and " secs"
ValueOfLine(line) ==
    LET tail == IF line.rest[Len(line.rest)] = "\n" THEN 6 ELSE 5
    IN  PyFloat(SubSeq(line.rest, 1, Len(line.rest) - tail))

\* the line holds the token and a value that parses as a number
HasParsedValue(line) == line.token /\ ValueOfLine(line).kind = "finite"

\* 1 for a value below 1, else the value truncated to an integer
SecondsOfLine(line) ==
    IF ValueOfLine(line).num < ValueOfLine(line).den THEN 1
    ELSE ValueOfLine(line).num \div ValueOfLine(line).den

RECURSIVE EntriesOf(_, _)
\* one entry per line of the file, from line k on, that has a parsed value
EntriesOf(lines, k) ==
    IF k > Len(lines) THEN <<>>
    ELSE (IF HasParsedValue(lines[k])
          THEN <<[staging_date_time |-> k, staging_seconds |-> SecondsOfLine(lines[k])]>>
          ELSE <<>>) \o EntriesOf(lines, k + 1)

\* every line with the token starts with a date and time that strptime accepts
DatesWellFormed == \A k \in 1..Len(log_lines) : log_lines[k].token => log_lines[k].stamp

\* C29: on a log whose lines with the token all start with a well-formed date,
\* parse_mwadmget_log never ends with an exception; when it returns it has
\* stored one entry per line that holds "Staging time:" and a value that parses
\* as a number, with seconds 1 for a value below 1 and the truncated value
\* otherwise, so every stored value is an integer of at least 1; the count
\* returned is the number of entries inserted; and the line number printed for
\* a line that cannot be parsed is the position of that line in the file.
C29_OneEntryPerParsedLine ==
    DatesWellFormed
        => /\ log_pc # "aborted"
           /\ \A k \in 1..Len(data_list) : data_list[k].staging_seconds >= 1
           /\ \A k \in 1..Len(printed) : printed[k].line_no = printed[k].line
           /\ log_pc = "returned"
                 => /\ data_list = EntriesOf(log_lines, 1)
                    /\ mwa_staging = data_list
                    /\ log_ret = <<Len(mwa_staging)>>

\* two lines that cannot be parsed: the second is reported with the number of
\* the line before it
C29_WrongLineNumber ==
    /\ log_pc = "returned" /\ Len(log_lines) = 2
    /\ printed = <<[line_no |-> 1, line |-> 1], [line_no |-> 1, line |-> 2]>>

\* the last line has no newline and its value 12 is stored as 1
C29_LastDigitLost ==
    /\ log_pc = "returned" /\ Len(log_lines) = 1
    /\ log_lines[1].rest = <<" ", "1", "2">> \o secs
    /\ data_list = <<[staging_date_time |-> 1, staging_seconds |-> 1]>>


(***************************************************************************)
(* C23.  The byte conversions.                                             *)
(***************************************************************************)
\* the double next above a, for a # 0
Succ64(a) ==
    LET m1 == BigAdd(a.m, <<1>>)
    IN  IF BitLen(m1) > Precision
        THEN [m |-> ShiftRight(m1, 1), e |-> a.e + 1]
        ELSE [m |-> m1, e |-> a.e]

\* a and b are neighbours among the doubles
Adjacent64(a, b) ==
    /\ a.m # <<>> /\ b.m # <<>>
    /\ (b = Succ64(a) \/ a = Succ64(b))

\* f is a double within half a unit in its last place of the quotient x / d
\* of the natural numbers x and d when x is a double itself (below 2^53),
\* and within one unit when x is rounded to a double first:
\* 2 * |m * d * 2^e - x| <= d * 2^e, or |m * d * 2^e - x| <= d * 2^e, with
\* both sides scaled to whole numbers
NearestQuotient(f, x, d) ==
    IF x = <<>> THEN f = Zero64
    ELSE LET up == IF f.e < 0 THEN -f.e ELSE 0
             down == IF f.e > 0 THEN f.e ELSE 0
             lhs == ShiftLeft(BigMul(f.m, d), down)
             rhs == ShiftLeft(x, up)
             diff == IF BigLess(lhs, rhs) THEN BigSub(rhs, lhs)
                     ELSE BigSub(lhs, rhs)
             units == IF BitLen(x) <= Precision THEN 2 ELSE 1
         IN  /\ BitLen(f.m) = Precision
             /\ ~BigLess(ShiftLeft(d, down), MulSmall(diff, units))

\* what the conversions returned is the decimal quotient, and 0.0 for None
DecimalQuotients ==
    /\ terabytes # <<>> =>
          IF unit_arg.is_none THEN terabytes[1] = Zero64
          ELSE NearestQuotient(terabytes[1], unit_arg.limbs, Tera)
    /\ petabytes # <<>> =>
          IF unit_arg.is_none THEN petabytes[1] = Zero64
          ELSE NearestQuotient(petabytes[1], unit_arg.limbs, Peta)

\* bytes_to_petabytes(x) * 1000
PetabytesTimesThousand == Mul64(petabytes[1], Thousand)

\* C23 as stated: bytes_to_terabytes(x) is x / 10^12 and bytes_to_petabytes(x)
\* is x / 10^15, both are 0.0 for None, and bytes_to_petabytes(x) * 1000 is
\* equal to bytes_to_terabytes(x).
C23_TimesThousandEqual ==
    /\ DecimalQuotients
    /\ (terabytes # <<>> /\ petabytes # <<>>) =>
          PetabytesTimesThousand = terabytes[1]

\* C23, amended: bytes_to_terabytes(x) is the double nearest to x / 10^12
\* and bytes_to_petabytes(x) the double nearest to x / 10^15 (decimal, never
\* 1024-based) for x below 2^53 and within one unit in the last place of
\* them above, both are 0.0 for None, and bytes_to_petabytes(x) * 1000 is
\* bytes_to_terabytes(x) or a double next to it.
C23_DecimalQuotientsWithinOneUlp ==
    /\ DecimalQuotients
    /\ (terabytes # <<>> /\ petabytes # <<>>) =>
          \/ PetabytesTimesThousand = terabytes[1]
          \/ Adjacent64(PetabytesTimesThousand, terabytes[1])

\* both conversions have returned for 3 bytes, and the petabytes times 1000
\* are the double next to the terabytes
C23_Witness ==
    /\ unit_pc = "returned"
    /\ unit_arg = IntValue(LimbsOf(3))
    /\ PetabytesTimesThousand # terabytes[1]
    /\ Adjacent64(PetabytesTimesThousand, terabytes[1])

\* a byte count above 2^53, which float() rounds before the division
C23_RoundedTwice ==
    /\ unit_pc = "returned"
    /\ ~unit_arg.is_none /\ BitLen(unit_arg.limbs) > Precision
    /\ Float64(unit_arg.limbs) # [m |-> unit_arg.limbs, e |-> 0]

\* both conversions have returned 0.0 for None
C23_NoneIsZero ==
    /\ unit_pc = "returned"
    /\ unit_arg = NoneValue
    /\ terabytes = <<Zero64>> /\ petabytes = <<Zero64>>


(***************************************************************************)
(* C24.  The cumulative fractions.                                         *)
(***************************************************************************)
\* the double that the division of two whole-numbered doubles returns
DoubleOf(fraction) ==
    Div64(Float64(LimbsOf(fraction.num)), Float64(LimbsOf(fraction.den)))

\* a <= b for doubles that are not negative
Leq64(a, b) ==
    \/ a.m = <<>>
    \/ b.m # <<>> /\ (a.e < b.e \/ (a.e = b.e /\ ~BigLess(b.m, a.m)))

One64 == Float64(LimbsOf(1))

\* the volumes are in descending order
VolsDescending == \A k \in 1..(Len(vols) - 1) : vols[k] >= vols[k + 1]

\* the loop has filled cum_frac for an archive that is not empty
CumFracFilled == sci_pc = "cum_frac" /\ SumSeq(vols) > 0

====
